---------------------------- MODULE Spec2Model ----------------------------
(***************************************************************************)
(* A model of the Discord ticket bot of src/main.py: the intake form       *)
(* (TicketModal), the claim button (TicketInitialView.take_button) and the *)
(* claimed-state buttons of TicketTakenView (accept_final, reject_ticket   *)
(* with its RejectReasonModal, delete_ticket).                             *)
(*                                                                         *)
(* The bot runs on one asyncio event loop.  A handler runs without         *)
(* preemption up to an `await`; there it is suspended, and any other       *)
(* handler may run.  Each action below is therefore one such segment of a  *)
(* handler: the effect of the platform call the handler was awaiting (or   *)
(* its failure, which the platform decides), followed by the handler's     *)
(* code up to its next await.  A suspended handler is a record of `tasks`. *)
(*                                                                         *)
(* The model follows one intake submission and the ticket it creates.      *)
(* Tickets share no state with each other: every ticket has its own view   *)
(* objects and its own channel; only `settings` is process-wide.           *)
(***************************************************************************)
EXTENDS Integers, Sequences, FiniteSets, Bags, TLC

VARIABLES
    settings,       \* the module-level dict `settings` (the keys handlers read)
    settings_file,  \* what settings.json holds: None (no file) or the dict
    form,           \* the intake submission: the author and the modal's raw values
    intake_reply,   \* Pending until TicketModal.on_submit has run on the submission;
                    \* then what it answered the submitter (None: it raised)
    channels,       \* number of text channels guild.create_text_channel created
    channel,        \* the ticket's channel: "none", "open", "deleted"
    topic,          \* the channel's topic
    overwrites,     \* the channel's permission overwrites, per principal
    posted,         \* the summary message channel.send posted: None or its fields
    message_view,   \* the view attached to that message: "none", "initial", "taken"
    initial_view,   \* the TicketInitialView object: None or its attributes
    taken_view,     \* the TicketTakenView object now attached: None or its attributes
    tasks,          \* suspended handler invocations
    modals,         \* RejectReasonModal forms sent and not yet submitted
    nInv,           \* number of button interactions delivered so far
    owner_in_guild, \* whether guild.get_member(owner.id) finds the requester
    owner_nick,     \* the requester's guild nickname: None or a string
    owner_roles,    \* the roles the bot granted the requester
    dms,            \* direct messages delivered to the requester, in order
    audit,          \* embeds send_log_embed scheduled for the log channel, in order
    delivery,       \* how far the _send_embed task of each of them has come
    claimants,      \* every value written to TicketInitialView.taken_by, in order
    calls           \* the platform calls handlers awaited, and whether each raised

ticketVars  == <<channels, channel, topic, overwrites, posted, message_view,
                 initial_view, taken_view>>
memberVars  == <<owner_in_guild, owner_nick, owner_roles, dms>>
configVars  == <<settings, settings_file>>
logVars     == <<audit, delivery>>
vars == <<settings, settings_file, form, intake_reply, channels, channel, topic,
          overwrites, posted, message_view, initial_view, taken_view, tasks,
          modals, nInv, owner_in_guild, owner_nick, owner_roles, dms, audit,
          delivery, claimants, calls>>

\* Python's None, for values that are otherwise strings
None == "None"

\* An Optional[...] of integers or records is a set of at most one element:
\* {} is None, {x} is x.
Nothing == {}
Some(x) == {x}
The(o) == CHOOSE x \in o : TRUE

-----------------------------------------------------------------------------
(* Python strings.  A string is kept run-length encoded: a sequence of runs *)
(* [c, n] of n >= 1 characters of class c, adjacent runs of different       *)
(* class.  The classes are what the code tells apart: "d" a decimal digit,  *)
(* "s" whitespace (what str.strip removes), "a" any other character.        *)

Run(c, n) == [c |-> c, n |-> n]

RECURSIVE len(_)
len(s) == IF s = <<>> THEN 0 ELSE Head(s).n + len(Tail(s))

RECURSIVE lstrip(_)
lstrip(s) == IF s # <<>> /\ Head(s).c = "s" THEN lstrip(Tail(s)) ELSE s

RECURSIVE rstrip(_)
rstrip(s) ==
    IF s # <<>> /\ s[Len(s)].c = "s" THEN rstrip(SubSeq(s, 1, Len(s) - 1)) ELSE s

strip(s) == rstrip(lstrip(s))

isdigit(s) == s # <<>> /\ \A i \in 1..Len(s) : s[i].c = "d"

\* whether the string holds a character that is not a decimal digit
HasNonDigit(s) == \E i \in 1..Len(s) : s[i].c # "d"

-----------------------------------------------------------------------------
(* The guild.                                                               *)

Requester == "req"
Actors    == {"req", "mod1", "mod2", "admin"}
StaffRole == "role:staff"
AcceptedRole == "role:accepted"
Everyone  == "role:everyone"
Bot       == "bot"
Principals == Actors \cup {StaffRole, AcceptedRole, Everyone, Bot}

\* interaction.user.guild_permissions.administrator
is_admin(a) == a = "admin"

\* interaction.user.roles
roles_of(a) == IF a \in {"mod1", "mod2"} THEN {StaffRole} ELSE {}

\* Settings ids are integers; the guild's roles and channels by id.
StaffRoleId    == 11
AcceptedRoleId == 12
LogChannelId   == 13
UnknownId      == 14

\* guild.get_role(id): the role, or None when the guild has no such role
get_role(id) ==
    IF id = StaffRoleId THEN StaffRole
    ELSE IF id = AcceptedRoleId THEN AcceptedRole
    ELSE None

\* Python truthiness of a settings value: None and 0 are falsy
truthy(v) == v # Nothing /\ v # Some(0)

-----------------------------------------------------------------------------
(* discord.PermissionOverwrite: each permission is allowed ("allow", True  *)
(* in the code), denied ("deny", False) or left unset (None).               *)

PermissionOverwrite(view, send, hist) ==
    [view_channel |-> view, send_messages |-> send, read_message_history |-> hist]
NoOverwrite == PermissionOverwrite(None, None, None)
FullAccess == PermissionOverwrite("allow", "allow", "allow")

-----------------------------------------------------------------------------
(* TicketModal: the five text inputs and their bounds.                      *)

NickMin == 3
NickMax == 50
AgeMin == 1
AgeMax == 2
PurposeMin == 50
PurposeMax == 500
FromWhereMin == 1
FromWhereMax == 50
ReadRulesMin == 1
ReadRulesMax == 20

MsgNick      == "nick must be 3 to 50 characters"
MsgAge       == "age must be a number of 1-2 digits"
MsgPurpose   == "purpose must be 50 to 500 characters"
MsgFromWhere == "from_where must be 1 to 50 characters"
MsgReadRules == "read_rules must be 1 to 20 characters"
MsgCreated   == "ticket created"

\* a length test whose lower bound is exclusive
LenWithin_exclusive(v, lo, hi) == lo < len(v) /\ len(v) <= hi

\* the length test of each `if not (lo <= len(v) <= hi)` of on_submit
LenWithin(v, lo, hi) == lo <= len(v) /\ len(v) <= hi

\* an age test that forgets isdigit()
AgeValid_anychar(v) == LenWithin(v, AgeMin, AgeMax)

\* the age test: 1-2 characters, all digits
AgeValid(v) == LenWithin(v, AgeMin, AgeMax) /\ isdigit(v)

\* The first failing check of on_submit on the stripped values, or None.
Validate(f) ==
    IF ~LenWithin(f.nick, NickMin, NickMax) THEN MsgNick
    ELSE IF ~AgeValid(f.age) THEN MsgAge
    ELSE IF ~LenWithin(f.purpose, PurposeMin, PurposeMax) THEN MsgPurpose
    ELSE IF ~LenWithin(f.from_where, FromWhereMin, FromWhereMax) THEN MsgFromWhere
    ELSE IF ~LenWithin(f.read_rules, ReadRulesMin, ReadRulesMax) THEN MsgReadRules
    ELSE None

\* the values as typed, were on_submit to validate them without strip()
Stripped_not(f) ==
    [nick |-> f.nick, age |-> f.age, purpose |-> f.purpose,
     from_where |-> f.from_where, read_rules |-> f.read_rules]

\* nick_val, age_val, ...: each value with surrounding whitespace removed
Stripped(f) ==
    [nick |-> strip(f.nick), age |-> strip(f.age), purpose |-> strip(f.purpose),
     from_where |-> strip(f.from_where), read_rules |-> strip(f.read_rules)]

\* overwrites that grant the staff role without looking at the settings
CreationOverwrites_anystaff(author, staff_role_id) ==
    [p \in Principals |->
        IF p = Everyone THEN PermissionOverwrite("deny", None, None)
        ELSE IF p \in {author, Bot, StaffRole} THEN FullAccess
        ELSE NoOverwrite]

\* the overwrites the channel is created with
CreationOverwrites(author, staff_role_id) ==
    LET role == IF truthy(staff_role_id) THEN get_role(The(staff_role_id)) ELSE None
    IN  [p \in Principals |->
            IF p = Everyone THEN PermissionOverwrite("deny", None, None)
            ELSE IF p = author \/ p = Bot THEN FullAccess
            ELSE IF role # None /\ p = role THEN FullAccess
            ELSE NoOverwrite]

\* no view object (before the ticket exists)
NoView ==
    [owner |-> None, nick_text |-> <<>>, age |-> <<>>, purpose |-> <<>>,
     from_where |-> <<>>, read_rules |-> <<>>, taken_by |-> None]

\* TicketInitialView.__init__
TicketInitialView(owner, v) ==
    [owner |-> owner, nick_text |-> v.nick, age |-> v.age, purpose |-> v.purpose,
     from_where |-> v.from_where, read_rules |-> v.read_rules, taken_by |-> None]

Pending == "pending"

\* the calls on_submit awaited, by the platform's `outcome`
IntakeCalls(outcome) ==
    LET Call(c, ok) == [kind |-> "intake", actor |-> form.author, call |-> c, ok |-> ok]
    IN  IF outcome = "create_failed" THEN {Call("create_text_channel", FALSE)}
        ELSE {Call("create_text_channel", TRUE), Call("channel.send", outcome = "ok")}

\* TicketModal.on_submit.  Its three awaits (create_text_channel,
\* channel.send, response.send_message) are taken in one step: no button
\* exists on the channel before channel.send has posted the message.  The
\* platform decides `outcome`: "create_failed" (create_text_channel raises:
\* the handler ends there), "send_failed" (the channel exists, channel.send
\* raises) or "ok".  Nothing follows the last send_message, so its failure is
\* not told apart.
TicketModal_on_submit(outcome) ==
    /\ intake_reply = Pending
    /\ LET v   == Stripped(form)
           err == Validate(v)
       IN  IF err # None
           THEN /\ outcome = "ok"
                /\ intake_reply' = err
                /\ UNCHANGED <<ticketVars, calls>>
           ELSE /\ calls' = calls \cup IntakeCalls(outcome)
                /\ IF outcome = "create_failed"
                   THEN /\ intake_reply' = None
                        /\ UNCHANGED ticketVars
                   ELSE /\ channels' = channels + 1
                        /\ channel' = "open"
                        /\ topic' = <<"ticket_owner", form.author>>
                        /\ overwrites' = CreationOverwrites(form.author,
                                                            settings.staff_role_id)
                        /\ IF outcome = "send_failed"
                           THEN /\ intake_reply' = None
                                /\ UNCHANGED <<posted, initial_view, message_view,
                                               taken_view>>
                           ELSE /\ posted' = Some([mention |-> form.author, info |-> v])
                                /\ initial_view' = TicketInitialView(form.author, v)
                                /\ message_view' = "initial"
                                /\ taken_view' = NoView
                                /\ intake_reply' = MsgCreated
    /\ UNCHANGED <<configVars, form, tasks, modals, nInv, memberVars, logVars,
                   claimants>>

Outcomes == {"ok", "create_failed", "send_failed"}

-----------------------------------------------------------------------------
(* Intake inputs.                                                           *)

\* the longest run of whitespace put around a value
MaxPad == 1

A(n) == IF n = 0 THEN <<>> ELSE <<Run("a", n)>>
D(n) == IF n = 0 THEN <<>> ELSE <<Run("d", n)>>
S(n) == IF n = 0 THEN <<>> ELSE <<Run("s", n)>>

\* Values around the bounds lo..hi of a field: bare, and padded with
\* whitespace so that the raw and the stripped length fall on different
\* sides of a bound.
TextValues(lo, hi) ==
    { A(n) : n \in {lo - 1, lo, hi, hi + 1} }
    \cup { S(k) \o A(lo - 1) : k \in 1..MaxPad }
    \cup { A(hi) \o S(k) : k \in 1..MaxPad }

AgeValues ==
    { D(n) : n \in 0..(AgeMax + 1) }
    \cup { S(k) \o D(1) : k \in 1..MaxPad }
    \cup { D(AgeMax) \o S(k) : k \in 1..MaxPad }
    \cup { D(1) \o A(1), A(1), D(1) \o S(1) \o D(1) }

IntakeForms ==
    [author : {Requester}, nick : TextValues(NickMin, NickMax), age : AgeValues,
     purpose : TextValues(PurposeMin, PurposeMax),
     from_where : TextValues(FromWhereMin, FromWhereMax),
     read_rules : TextValues(ReadRulesMin, ReadRulesMax)]

InitRest ==
    /\ settings_file = Some(settings)
    /\ intake_reply = Pending
    /\ channels = 0
    /\ channel = "none"
    /\ topic = <<>>
    /\ overwrites = [p \in Principals |-> NoOverwrite]
    /\ posted = Nothing
    /\ message_view = "none"
    /\ initial_view = NoView
    /\ taken_view = NoView
    /\ tasks = EmptyBag
    /\ modals = EmptyBag
    /\ nInv = 0
    /\ owner_in_guild = TRUE
    /\ owner_nick = Nothing
    /\ owner_roles = {}
    /\ dms = <<>>
    /\ audit = <<>>
    /\ delivery = <<>>
    /\ claimants = <<>>
    /\ calls = {}

\* The intake form alone, on every combination of the values above.
InitIntake ==
    /\ settings \in [staff_role_id : {Nothing, Some(0), Some(StaffRoleId),
                                        Some(UnknownId)},
                     accepted_role_id : {Nothing}, log_channel_id : {Nothing}]
    /\ form \in IntakeForms
    /\ InitRest

NextIntake == \E outcome \in Outcomes : TicketModal_on_submit(outcome)

SpecIntake == InitIntake /\ [][NextIntake]_vars

-----------------------------------------------------------------------------
(* Button interactions.  The platform delivers a button press to the view   *)
(* attached to the ticket's message, so a press needs the channel and that  *)
(* view.  MaxInvocations bounds the presses of one run.                     *)

MaxInvocations == 2

MsgNoStaffRole  == "staff role is not configured"
MsgNotAllowed   == "you may not take the ticket"
MsgAlreadyTaken == "the ticket is already taken"
MsgOnlyTaker    == "only the moderator who took the ticket may do this"
MsgAccepted     == "ticket accepted"
MsgRejected     == "ticket rejected"
MsgDeleting     == "channel is being deleted"

\* A suspended handler: which handler, who pressed, the await it is at, and
\* the locals it still reads.
Task(kind, actor, pc) ==
    [kind |-> kind, actor |-> actor, pc |-> pc, msg |-> None,
     role |-> None, member |-> FALSE, taker |-> None, reason |-> FALSE,
     target |-> Nothing, raw |-> <<>>]

\* `return await interaction.response.send_message(msg, ephemeral=True)`
Reply(kind, actor, msg) == [Task(kind, actor, "respond") EXCEPT !.msg = msg]

Press(view) == channel = "open" /\ message_view = view /\ nInv < MaxInvocations

\* whether an awaited call on the ticket's channel can succeed at all
ChannelCall(ok) == ok \in BOOLEAN /\ (ok => channel = "open")
\* whether an awaited call on the requester as a guild member can succeed
MemberCall(ok) == ok \in BOOLEAN /\ (ok => owner_in_guild)

\* `tasks` is a bag: two presses of one button by one actor are two handlers
Suspended(t) == BagIn(t, tasks)
Start(t) == tasks' = tasks (+) SetToBag({t})
Finish(t) == tasks' = tasks (-) SetToBag({t})
Replace(t, u) == tasks' = (tasks (-) SetToBag({t})) (+) SetToBag({u})

\* handler t's awaited call returned (ok) or raised
Awaited(t, call, ok) ==
    calls' = calls \cup {[kind |-> t.kind, actor |-> t.actor, call |-> call, ok |-> ok]}

\* a handler's last `await interaction.response.send_message(...)` returns
Respond(t) ==
    /\ Suspended(t) /\ t.pc = "respond"
    /\ Finish(t)
    /\ UNCHANGED <<configVars, form, intake_reply, ticketVars, modals, nInv,
                   memberVars, logVars, claimants, calls>>

-----------------------------------------------------------------------------
(* TicketInitialView.take_button                                            *)

\* a take_button without the check of line 297
NotConfigured_never(staff_role_id) == FALSE

\* line 297: `if staff_role_id is None`
NotConfigured(staff_role_id) == staff_role_id = Nothing

\* a take_button that lets every member through
Allowed_anyone(a, staff_role_id) == TRUE

\* lines 300-305: the staff role, if it resolves, or administrator (line 297
\* has returned when staff_role_id is None, so int() is given a number)
Allowed(a, staff_role_id) ==
    LET role == IF staff_role_id = Nothing THEN None
                ELSE get_role(The(staff_role_id))
    IN  (role # None /\ role \in roles_of(a)) \/ is_admin(a)

\* a set_permissions that leaves the staff role able to send
StaffOverwrite_sending == PermissionOverwrite("allow", "allow", "allow")

\* line 321: what set_permissions leaves the staff role with
StaffOverwrite == PermissionOverwrite("allow", "deny", "allow")

\* a take_button without the check of line 309
AlreadyTaken_never == FALSE

\* a take_button that forgets the write of line 312
SetTakenBy_forgotten(iv, a) == iv

\* line 312: self.taken_by = interaction.user.id
SetTakenBy(iv, a) == [iv EXCEPT !.taken_by = a]

\* line 309
AlreadyTaken == initial_view.taken_by # None

\* a view that takes the age for the nickname
TicketTakenView_mixed(iv) ==
    [owner |-> iv.owner, nick_text |-> iv.age, age |-> iv.age,
     purpose |-> iv.purpose, from_where |-> iv.from_where,
     read_rules |-> iv.read_rules, taker_id |-> iv.taken_by]

\* TicketTakenView.__init__, from the attributes of the initial view
TicketTakenView(iv) ==
    [owner |-> iv.owner, nick_text |-> iv.nick_text, age |-> iv.age,
     purpose |-> iv.purpose, from_where |-> iv.from_where,
     read_rules |-> iv.read_rules, taker_id |-> iv.taken_by]

\* The handler up to its first await: the three checks, the write of
\* taken_by, and the call it then awaits.
take_button(a) ==
    /\ Press("initial")
    /\ nInv' = nInv + 1
    /\ LET staff_role_id == settings.staff_role_id
       IN  IF NotConfigured(staff_role_id)
           THEN /\ Start(Reply("take", a, MsgNoStaffRole))
                /\ UNCHANGED <<initial_view, claimants>>
           ELSE IF ~Allowed(a, staff_role_id)
           THEN /\ Start(Reply("take", a, MsgNotAllowed))
                /\ UNCHANGED <<initial_view, claimants>>
           ELSE IF AlreadyTaken
           THEN /\ Start(Reply("take", a, MsgAlreadyTaken))
                /\ UNCHANGED <<initial_view, claimants>>
           ELSE /\ initial_view' = SetTakenBy(initial_view, a)
                /\ claimants' = Append(claimants, a)
                /\ LET role == IF truthy(staff_role_id)
                               THEN get_role(The(staff_role_id)) ELSE None
                   IN  Start(IF role # None
                             THEN [Task("take", a, "set_role") EXCEPT !.role = role]
                             ELSE Task("take", a, "set_user"))
    /\ UNCHANGED <<configVars, form, intake_reply, channels, channel, topic,
                   overwrites, posted, message_view, taken_view, modals,
                   memberVars, logVars, calls>>


\* The handler is about to await response.edit_message: its argument, the
\* TicketTakenView, is built from self.taken_by as it is now.
ToEdit(t) == [t EXCEPT !.pc = "edit", !.taker = initial_view.taken_by]

TakeFrame == UNCHANGED <<configVars, form, intake_reply, channels, channel, topic,
                         posted, initial_view, modals, nInv, memberVars, logVars,
                         claimants>>

\* line 321: ch.set_permissions(role, send_messages=False, ...) returns or raises
TakeSetRole(t, ok) ==
    /\ Suspended(t) /\ t.kind = "take" /\ t.pc = "set_role"
    /\ Awaited(t, "set_permissions(role)", ok)
    /\ ChannelCall(ok)
    /\ IF ok
       THEN /\ overwrites' = [overwrites EXCEPT ![t.role] = StaffOverwrite]
            /\ Replace(t, [t EXCEPT !.pc = "set_user"])
       ELSE /\ UNCHANGED overwrites
            /\ Replace(t, ToEdit(t))
    /\ UNCHANGED <<message_view, taken_view>>
    /\ TakeFrame

\* line 323: ch.set_permissions(interaction.user, send_messages=True, ...);
\* then guild.get_member(self.owner.id) decides whether line 327 runs
TakeSetUser(t, ok) ==
    /\ Suspended(t) /\ t.kind = "take" /\ t.pc = "set_user"
    /\ Awaited(t, "set_permissions(user)", ok)
    /\ ChannelCall(ok)
    /\ IF ok
       THEN /\ overwrites' = [overwrites EXCEPT ![t.actor] = FullAccess]
            /\ Replace(t, IF owner_in_guild THEN [t EXCEPT !.pc = "set_owner"]
                          ELSE ToEdit(t))
       ELSE /\ UNCHANGED overwrites
            /\ Replace(t, ToEdit(t))
    /\ UNCHANGED <<message_view, taken_view>>
    /\ TakeFrame

\* line 327: ch.set_permissions(owner_member, send_messages=True, ...)
TakeSetOwner(t, ok) ==
    /\ Suspended(t) /\ t.kind = "take" /\ t.pc = "set_owner"
    /\ Awaited(t, "set_permissions(owner)", ok)
    /\ ChannelCall(ok)
    /\ IF ok
       THEN overwrites' = [overwrites EXCEPT ![initial_view.owner] = FullAccess]
       ELSE UNCHANGED overwrites
    /\ Replace(t, ToEdit(t))
    /\ UNCHANGED <<message_view, taken_view>>
    /\ TakeFrame

\* line 331: response.edit_message(view=TicketTakenView(...)) returns, and the
\* message now carries the claimed-state buttons; or it raises, the handler
\* ends, and the message keeps the view it had
TakeEdit(t, ok) ==
    /\ Suspended(t) /\ t.kind = "take" /\ t.pc = "edit"
    /\ Awaited(t, "edit_message", ok)
    /\ ChannelCall(ok)
    /\ IF ok
       THEN /\ message_view' = "taken"
            /\ taken_view' = [TicketTakenView(initial_view) EXCEPT !.taker_id = t.taker]
       ELSE UNCHANGED <<message_view, taken_view>>
    /\ Finish(t)
    /\ UNCHANGED overwrites
    /\ TakeFrame

-----------------------------------------------------------------------------
(* send_log_embed: the embed is built and its sending scheduled only when   *)
(* log_channel_id is set (and not 0).  `audit` keeps the scheduled embeds.  *)

TicketText(v) ==
    [nick |-> v.nick_text, age |-> v.age, purpose |-> v.purpose,
     from_where |-> v.from_where, read_rules |-> v.read_rules]

LogEmbed(level, title, moderator, owner_id, has_reason, text) ==
    [target |-> The(settings.log_channel_id), level |-> level, title |-> title,
     moderator |-> moderator, owner_id |-> owner_id, channel |-> "ticket",
     reason |-> has_reason, text |-> text]

\* lines 132-134 and 178: nothing when the id is None or 0; otherwise the
\* embed is built and bot.loop.create_task(_send_embed()) schedules its sending
send_log_embed(level, title, moderator, owner_id, has_reason, text) ==
    IF ~truthy(settings.log_channel_id) THEN UNCHANGED <<audit, delivery>>
    ELSE /\ audit' = Append(audit, LogEmbed(level, title, moderator, owner_id,
                                            has_reason, text))
         /\ delivery' = Append(delivery, "scheduled")

-----------------------------------------------------------------------------
(* TicketTakenView                                                          *)

\* an authorization that also lets every holder of the staff role through
is_taker_or_admin_staff(a) ==
    a = taken_view.taker_id \/ is_admin(a) \/ StaffRole \in roles_of(a)

\* line 356
is_taker_or_admin(a) == a = taken_view.taker_id \/ is_admin(a)

\* a deletion that returns and leaves the channel in place
DeleteChannel_kept(t, ok) ==
    /\ ChannelCall(ok)
    /\ channel' = channel
    /\ Finish(t)

\* chan.delete() / channel.delete(): the channel is gone, or the call raised
\* and the exception was swallowed; either way the handler is over
DeleteChannel(t, ok) ==
    /\ ChannelCall(ok)
    /\ channel' = IF ok THEN "deleted" ELSE channel
    /\ Finish(t)

ResolveFrame == UNCHANGED <<configVars, form, intake_reply, channels, topic,
                            overwrites, posted, message_view, initial_view,
                            taken_view, nInv, owner_in_guild, claimants>>

\* accept_final up to its first await: the authorization check and
\* guild.get_member(self.owner.id)
accept_final(a) ==
    /\ Press("taken")
    /\ nInv' = nInv + 1
    /\ Start(IF ~is_taker_or_admin(a) THEN Reply("accept", a, MsgOnlyTaker)
             ELSE IF owner_in_guild THEN Task("accept", a, "nick")
             ELSE [Task("accept", a, "ack") EXCEPT !.msg = MsgAccepted])
    /\ UNCHANGED <<configVars, form, intake_reply, ticketVars, modals, memberVars,
                   logVars, claimants, calls>>

\* an accept_final that grants the accepted role without reading the settings
AfterNick_always(t) == [t EXCEPT !.pc = "role", !.role = AcceptedRole]

\* the step after the nickname change: the role grant when accepted_role_id
\* is set and resolves, else the DM
AfterNick(t) ==
    LET accepted_role_id == settings.accepted_role_id
        role == IF truthy(accepted_role_id)
                THEN get_role(The(accepted_role_id)) ELSE None
    IN  IF role # None THEN [t EXCEPT !.pc = "role", !.role = role]
        ELSE [t EXCEPT !.pc = "dm"]

\* an accept_final whose member.edit is not in a try block: when it raises
\* the handler ends
AcceptNick_raising(t, ok) ==
    /\ Suspended(t) /\ t.kind = "accept" /\ t.pc = "nick"
    /\ Awaited(t, "member.edit", ok)
    /\ MemberCall(ok)
    /\ owner_nick' = IF ok THEN Some(taken_view.nick_text) ELSE owner_nick
    /\ IF ok THEN Replace(t, AfterNick(t)) ELSE Finish(t)
    /\ UNCHANGED <<channel, modals, owner_roles, dms, logVars>>
    /\ ResolveFrame

\* line 368: member.edit(nick=self.nick_text) returns or raises
AcceptNick(t, ok) ==
    /\ Suspended(t) /\ t.kind = "accept" /\ t.pc = "nick"
    /\ Awaited(t, "member.edit", ok)
    /\ MemberCall(ok)
    /\ owner_nick' = IF ok THEN Some(taken_view.nick_text) ELSE owner_nick
    /\ Replace(t, AfterNick(t))
    /\ UNCHANGED <<channel, modals, owner_roles, dms, logVars>>
    /\ ResolveFrame

\* line 377: member.add_roles(role) returns or raises
AcceptRole(t, ok) ==
    /\ Suspended(t) /\ t.kind = "accept" /\ t.pc = "role"
    /\ Awaited(t, "member.add_roles", ok)
    /\ MemberCall(ok)
    /\ owner_roles' = IF ok THEN owner_roles \cup {t.role} ELSE owner_roles
    /\ Replace(t, [t EXCEPT !.pc = "dm"])
    /\ UNCHANGED <<channel, modals, owner_nick, dms, logVars>>
    /\ ResolveFrame

\* line 388: member.send(embed) returns or raises
AcceptDm(t, ok) ==
    /\ Suspended(t) /\ t.kind = "accept" /\ t.pc = "dm"
    /\ Awaited(t, "member.send", ok)
    /\ ok \in BOOLEAN
    /\ dms' = IF ok THEN Append(dms, [kind |-> "accept", reason |-> FALSE]) ELSE dms
    /\ Replace(t, [t EXCEPT !.pc = "ack", !.msg = MsgAccepted])
    /\ UNCHANGED <<channel, modals, owner_nick, owner_roles, logVars>>
    /\ ResolveFrame

\* an accept_final whose acknowledgement is in a try block: the audit entry
\* and the deletion follow whether it returned or raised
AcceptAck_regardless(t, ok) ==
    /\ Suspended(t) /\ t.kind = "accept" /\ t.pc = "ack"
    /\ Awaited(t, "send_message", ok)
    /\ ok \in BOOLEAN
    /\ send_log_embed("info", "accepted", t.actor, taken_view.owner,
                      FALSE, TicketText(taken_view))
    /\ Replace(t, [t EXCEPT !.pc = "delete"])
    /\ UNCHANGED <<channel, modals, owner_nick, owner_roles, dms>>
    /\ ResolveFrame

\* line 391: the acknowledgement returns, the audit entry is scheduled and
\* chan.delete() is awaited; or it raises, and the handler ends there
AcceptAck(t, ok) ==
    /\ Suspended(t) /\ t.kind = "accept" /\ t.pc = "ack"
    /\ Awaited(t, "send_message", ok)
    /\ ok \in BOOLEAN
    /\ IF ok
       THEN /\ send_log_embed("info", "accepted", t.actor, taken_view.owner,
                              FALSE, TicketText(taken_view))
            /\ Replace(t, [t EXCEPT !.pc = "delete"])
       ELSE /\ UNCHANGED logVars
            /\ Finish(t)
    /\ UNCHANGED <<channel, modals, owner_nick, owner_roles, dms>>
    /\ ResolveFrame

\* line 421
AcceptDelete(t, ok) ==
    /\ Suspended(t) /\ t.kind = "accept" /\ t.pc = "delete"
    /\ Awaited(t, "channel.delete", ok)
    /\ DeleteChannel(t, ok)
    /\ UNCHANGED <<modals, owner_nick, owner_roles, dms, logVars>>
    /\ ResolveFrame


\* reject_ticket: the authorization check, guild.get_member(self.owner.id)
\* (kept by the modal's closure as owner_member), and send_modal
reject_ticket(a) ==
    /\ Press("taken")
    /\ nInv' = nInv + 1
    /\ Start(IF ~is_taker_or_admin(a) THEN Reply("reject", a, MsgOnlyTaker)
             ELSE [Task("reject", a, "send_modal") EXCEPT !.member = owner_in_guild])
    /\ UNCHANGED <<configVars, form, intake_reply, ticketVars, modals, memberVars,
                   logVars, claimants, calls>>

\* line 484: response.send_modal(RejectReasonModal()) returns, and the form
\* is open on the presser's client; or it raises
RejectSendModal(t, ok) ==
    /\ Suspended(t) /\ t.kind = "reject" /\ t.pc = "send_modal"
    /\ Awaited(t, "send_modal", ok)
    /\ ok \in BOOLEAN
    /\ modals' = IF ok
                 THEN modals (+) SetToBag({[actor |-> t.actor, member |-> t.member]})
                 ELSE modals
    /\ Finish(t)
    /\ UNCHANGED <<channel, owner_nick, owner_roles, dms, logVars>>
    /\ ResolveFrame

\* RejectReasonModal.on_submit up to its first await: the DM when
\* owner_member was found, else the acknowledgement.  has_reason: whether
\* the optional reason was filled in.
RejectReasonModal_on_submit(m, has_reason) ==
    /\ BagIn(m, modals)
    /\ modals' = modals (-) SetToBag({m})
    /\ Start([Task("reject_submit", m.actor, IF m.member THEN "dm" ELSE "ack")
                EXCEPT !.member = m.member, !.reason = has_reason,
                       !.msg = IF m.member THEN None ELSE MsgRejected])
    /\ UNCHANGED <<channel, owner_nick, owner_roles, dms, logVars, calls>>
    /\ ResolveFrame

\* line 446: owner_member.send(embed) returns or raises
RejectDm(t, ok) ==
    /\ Suspended(t) /\ t.kind = "reject_submit" /\ t.pc = "dm"
    /\ Awaited(t, "member.send", ok)
    /\ ok \in BOOLEAN
    /\ dms' = IF ok THEN Append(dms, [kind |-> "reject", reason |-> t.reason]) ELSE dms
    /\ Replace(t, [t EXCEPT !.pc = "ack", !.msg = MsgRejected])
    /\ UNCHANGED <<channel, modals, owner_nick, owner_roles, logVars>>
    /\ ResolveFrame

\* a reject submission that logs at the level accept_final uses
RejectAck_info(t, ok) ==
    /\ Suspended(t) /\ t.kind = "reject_submit" /\ t.pc = "ack"
    /\ Awaited(t, "send_message", ok)
    /\ ok \in BOOLEAN
    /\ IF ok
       THEN /\ send_log_embed("info", "rejected", t.actor, taken_view.owner,
                              t.reason, TicketText(taken_view))
            /\ Replace(t, [t EXCEPT !.pc = "delete"])
       ELSE /\ UNCHANGED logVars
            /\ Finish(t)
    /\ UNCHANGED <<channel, modals, owner_nick, owner_roles, dms>>
    /\ ResolveFrame

\* line 449: the acknowledgement returns, the audit entry is scheduled and
\* channel.delete() is awaited; or it raises, and the handler ends there
RejectAck(t, ok) ==
    /\ Suspended(t) /\ t.kind = "reject_submit" /\ t.pc = "ack"
    /\ Awaited(t, "send_message", ok)
    /\ ok \in BOOLEAN
    /\ IF ok
       THEN /\ send_log_embed("warning", "rejected", t.actor, taken_view.owner,
                              t.reason, TicketText(taken_view))
            /\ Replace(t, [t EXCEPT !.pc = "delete"])
       ELSE /\ UNCHANGED logVars
            /\ Finish(t)
    /\ UNCHANGED <<channel, modals, owner_nick, owner_roles, dms>>
    /\ ResolveFrame

\* line 478
RejectDelete(t, ok) ==
    /\ Suspended(t) /\ t.kind = "reject_submit" /\ t.pc = "delete"
    /\ Awaited(t, "channel.delete", ok)
    /\ DeleteChannel(t, ok)
    /\ UNCHANGED <<modals, owner_nick, owner_roles, dms, logVars>>
    /\ ResolveFrame

\* delete_ticket up to its first await: the authorization check
delete_ticket(a) ==
    /\ Press("taken")
    /\ nInv' = nInv + 1
    /\ Start(IF ~is_taker_or_admin(a) THEN Reply("delete", a, MsgOnlyTaker)
             ELSE [Task("delete", a, "ack") EXCEPT !.msg = MsgDeleting])
    /\ UNCHANGED <<configVars, form, intake_reply, ticketVars, modals, memberVars,
                   logVars, claimants, calls>>

\* a delete_ticket that emits an audit entry the way accept_final does
DeleteAck_logging(t, ok) ==
    /\ Suspended(t) /\ t.kind = "delete" /\ t.pc = "ack"
    /\ Awaited(t, "send_message", ok)
    /\ ok \in BOOLEAN
    /\ IF ok
       THEN /\ send_log_embed("info", "deleted", t.actor, taken_view.owner,
                              FALSE, TicketText(taken_view))
            /\ Replace(t, [t EXCEPT !.pc = "delete"])
       ELSE /\ UNCHANGED logVars
            /\ Finish(t)
    /\ UNCHANGED <<channel, modals, owner_nick, owner_roles, dms>>
    /\ ResolveFrame

\* line 490: the acknowledgement returns and channel.delete() is awaited; or
\* it raises, and the handler ends there
DeleteAck(t, ok) ==
    /\ Suspended(t) /\ t.kind = "delete" /\ t.pc = "ack"
    /\ Awaited(t, "send_message", ok)
    /\ ok \in BOOLEAN
    /\ IF ok THEN Replace(t, [t EXCEPT !.pc = "delete"]) ELSE Finish(t)
    /\ UNCHANGED <<channel, modals, owner_nick, owner_roles, dms, logVars>>
    /\ ResolveFrame

\* line 492
DeleteDelete(t, ok) ==
    /\ Suspended(t) /\ t.kind = "delete" /\ t.pc = "delete"
    /\ Awaited(t, "channel.delete", ok)
    /\ DeleteChannel(t, ok)
    /\ UNCHANGED <<modals, owner_nick, owner_roles, dms, logVars>>
    /\ ResolveFrame

-----------------------------------------------------------------------------
(* The guild around the bot.                                                *)

\* the requester leaves the guild: guild.get_member(owner.id) is None from now
OwnerLeaves ==
    /\ channel = "open"
    /\ owner_in_guild
    /\ owner_in_guild' = FALSE
    /\ UNCHANGED <<configVars, form, intake_reply, ticketVars, tasks, modals, nInv,
                   owner_nick, owner_roles, dms, logVars, claimants, calls>>

-----------------------------------------------------------------------------
(* The ticket's life.                                                       *)

\* An intake submission the form accepts (its values padded with
\* whitespace) and one it rejects.
LifeForms ==
    { [author |-> Requester, nick |-> A(NickMax) \o S(1), age |-> S(1) \o D(AgeMax),
       purpose |-> A(PurposeMin), from_where |-> A(FromWhereMax),
       read_rules |-> A(ReadRulesMin)],
      [author |-> Requester, nick |-> A(NickMin), age |-> D(AgeMin),
       purpose |-> A(PurposeMin - 1), from_where |-> A(FromWhereMin),
       read_rules |-> A(ReadRulesMin)] }

Settings(staff, accepted, log) ==
    [staff_role_id |-> staff, accepted_role_id |-> accepted, log_channel_id |-> log]

\* What settings.json can hold when the bot starts: the first-run defaults,
\* or ids an administrator has set since (one of them an id the guild has
\* no role for).
LifeSettings ==
    { Settings(Nothing, Nothing, Nothing),
      Settings(Some(StaffRoleId), Nothing, Nothing),
      Settings(Some(StaffRoleId), Nothing, Some(LogChannelId)),
      Settings(Some(StaffRoleId), Some(AcceptedRoleId), Some(LogChannelId)),
      Settings(Some(UnknownId), Some(AcceptedRoleId), Nothing) }

Init ==
    /\ settings \in LifeSettings
    /\ form \in LifeForms
    /\ InitRest

Next ==
    \/ \E outcome \in Outcomes : TicketModal_on_submit(outcome)
    \/ \E a \in Actors : take_button(a)
    \/ \E a \in Actors : accept_final(a)
    \/ \E a \in Actors : reject_ticket(a)
    \/ \E a \in Actors : delete_ticket(a)
    \/ \E m \in BagToSet(modals), r \in BOOLEAN : RejectReasonModal_on_submit(m, r)
    \/ \E t \in BagToSet(tasks) : Respond(t)
    \/ \E t \in BagToSet(tasks), ok \in BOOLEAN : TakeSetRole(t, ok)
    \/ \E t \in BagToSet(tasks), ok \in BOOLEAN : TakeSetUser(t, ok)
    \/ \E t \in BagToSet(tasks), ok \in BOOLEAN : TakeSetOwner(t, ok)
    \/ \E t \in BagToSet(tasks), ok \in BOOLEAN : TakeEdit(t, ok)
    \/ \E t \in BagToSet(tasks), ok \in BOOLEAN : AcceptNick(t, ok)
    \/ \E t \in BagToSet(tasks), ok \in BOOLEAN : AcceptRole(t, ok)
    \/ \E t \in BagToSet(tasks), ok \in BOOLEAN : AcceptDm(t, ok)
    \/ \E t \in BagToSet(tasks), ok \in BOOLEAN : AcceptAck(t, ok)
    \/ \E t \in BagToSet(tasks), ok \in BOOLEAN : AcceptDelete(t, ok)
    \/ \E t \in BagToSet(tasks), ok \in BOOLEAN : RejectSendModal(t, ok)
    \/ \E t \in BagToSet(tasks), ok \in BOOLEAN : RejectDm(t, ok)
    \/ \E t \in BagToSet(tasks), ok \in BOOLEAN : RejectAck(t, ok)
    \/ \E t \in BagToSet(tasks), ok \in BOOLEAN : RejectDelete(t, ok)
    \/ \E t \in BagToSet(tasks), ok \in BOOLEAN : DeleteAck(t, ok)
    \/ \E t \in BagToSet(tasks), ok \in BOOLEAN : DeleteDelete(t, ok)
    \/ OwnerLeaves

Spec == Init /\ [][Next]_vars

-----------------------------------------------------------------------------
(* TicketTakenView.add_moderator and AddModeratorModal.on_submit.           *)
(*                                                                          *)
(* The text typed into the form is a sequence of runs like the intake       *)
(* values; a run of digits also says which digit string it spells: the run  *)
(* Digits(v, n) is the first n digits of the digit string v.  A member's id *)
(* is the first IdLen digits of the digit string named after the member.   *)

IdMin == 17
IdMax == 20

Digits(v, n) == [c |-> "d", n |-> n, v |-> v]
Text(n) == [c |-> "a", n |-> n, v |-> ""]
Space(n) == [c |-> "s", n |-> n, v |-> ""]

\* an identity number: the first n digits of the digit string v
Id(v, n) == [v |-> v, n |-> n]

IdLen(a) ==
    CASE a = "req" -> 19 [] a = "mod1" -> 17 [] a = "mod2" -> 18 [] a = "admin" -> 20

member_id(a) == Id(a, IdLen(a))

Smaller(x, y) == IF x < y THEN x ELSE y

\* re.search(r"\d{17,20}", raw) and int(m.group(0)): the leftmost place where
\* 17 digits follow one another, and up to 20 digits from there on
re_search(s) ==
    LET hits == { i \in 1..Len(s) : s[i].c = "d" /\ s[i].n >= IdMin }
    IN  IF hits = {} THEN Nothing
        ELSE LET i == CHOOSE j \in hits : \A k \in hits : j <= k
             IN  Some(Id(s[i].v, Smaller(s[i].n, IdMax)))

\* a lookup that finds a member under every id
get_member_stranger(id) == Some("mod1")

\* the member of the guild with this id, if there is one
get_member(id) ==
    LET found == { a \in Actors :
                     member_id(a) = id /\ (a = Requester => owner_in_guild) }
    IN  IF found = {} THEN Nothing ELSE Some(CHOOSE a \in found : TRUE)

MsgNoId      == "could not recognise a user id"
MsgNotFound  == "user not found on the server"
MsgAdded     == "moderator added to the ticket"
MsgAddFailed == "could not set permissions or send the message"

\* add_moderator: the authorization check, then send_modal
add_moderator(a) ==
    /\ Press("taken")
    /\ nInv' = nInv + 1
    /\ Start(IF ~is_taker_or_admin(a) THEN Reply("add", a, MsgOnlyTaker)
             ELSE Task("add", a, "send_modal"))
    /\ UNCHANGED <<configVars, form, intake_reply, ticketVars, modals, memberVars,
                   logVars, claimants, calls>>

\* what the add-collaborator steps leave alone
AddFrame ==
    UNCHANGED <<configVars, form, intake_reply, channels, channel, topic, posted,
                message_view, initial_view, taken_view, nInv, memberVars,
                claimants>>

\* line 548: response.send_modal(AddModeratorModal()) returns or raises
AddSendModal(t, ok) ==
    /\ Suspended(t) /\ t.kind = "add" /\ t.pc = "send_modal"
    /\ Awaited(t, "send_modal", ok)
    /\ ok \in BOOLEAN
    /\ modals' = IF ok THEN modals (+) SetToBag({[actor |-> t.actor, member |-> FALSE]})
                 ELSE modals
    /\ Finish(t)
    /\ UNCHANGED <<overwrites, logVars>>
    /\ AddFrame

\* AddModeratorModal.on_submit up to its first await, on the text `raw`:
\* the search, then guild.get_member; `cached` is whether the member cache
\* holds the member.
AddModeratorModal_on_submit(m, raw, cached) ==
    /\ BagIn(m, modals)
    /\ modals' = modals (-) SetToBag({m})
    /\ LET match == re_search(strip(raw))
       IN  Start(IF match = Nothing
                 THEN [Reply("add_submit", m.actor, MsgNoId) EXCEPT !.raw = raw]
                 ELSE [Task("add_submit", m.actor,
                            IF get_member(The(match)) # Nothing /\ cached
                            THEN "set_permissions" ELSE "fetch")
                         EXCEPT !.target = match, !.raw = raw])
    /\ UNCHANGED <<overwrites, logVars, calls>>
    /\ AddFrame

\* lines 520-527: guild.fetch_member(mid) returns the member, or raises and
\* the submitter is told the user was not found
AddFetch(t, ok) ==
    /\ Suspended(t) /\ t.kind = "add_submit" /\ t.pc = "fetch"
    /\ Awaited(t, "fetch_member", ok)
    /\ ok \in BOOLEAN
    /\ ok => get_member(The(t.target)) # Nothing
    /\ Replace(t, IF ok THEN [t EXCEPT !.pc = "set_permissions"]
                  ELSE [t EXCEPT !.pc = "respond", !.msg = MsgNotFound])
    /\ UNCHANGED <<modals, overwrites, logVars>>
    /\ AddFrame

\* the `except Exception` of line 545: the failure message is sent
AddFailed(t) == [t EXCEPT !.pc = "respond", !.msg = MsgAddFailed]

\* line 532: ch.set_permissions(member, ...) returns or raises
AddSetPermissions(t, ok) ==
    /\ Suspended(t) /\ t.kind = "add_submit" /\ t.pc = "set_permissions"
    /\ Awaited(t, "set_permissions(member)", ok)
    /\ ChannelCall(ok)
    /\ IF ok
       THEN /\ overwrites' = [overwrites EXCEPT
                                ![The(get_member(The(t.target)))] = FullAccess]
            /\ Replace(t, [t EXCEPT !.pc = "send"])
       ELSE /\ UNCHANGED overwrites
            /\ Replace(t, AddFailed(t))
    /\ UNCHANGED <<modals, logVars>>
    /\ AddFrame

\* line 534: ch.send(mention) returns or raises
AddSend(t, ok) ==
    /\ Suspended(t) /\ t.kind = "add_submit" /\ t.pc = "send"
    /\ Awaited(t, "channel.send", ok)
    /\ ChannelCall(ok)
    /\ Replace(t, IF ok THEN [t EXCEPT !.pc = "ack", !.msg = MsgAdded]
                  ELSE AddFailed(t))
    /\ UNCHANGED <<modals, overwrites, logVars>>
    /\ AddFrame

\* the entry of lines 538-542 carries no ticket text
NoText == TicketText(NoView)

\* line 535: the confirmation returns and the audit entry is scheduled; or it
\* raises, and the failure message is sent
AddAck(t, ok) ==
    /\ Suspended(t) /\ t.kind = "add_submit" /\ t.pc = "ack"
    /\ Awaited(t, "send_message", ok)
    /\ ok \in BOOLEAN
    /\ IF ok
       THEN /\ send_log_embed("info", "moderator added", t.target, None, FALSE,
                              NoText)
            /\ Finish(t)
       ELSE /\ UNCHANGED logVars
            /\ Replace(t, AddFailed(t))
    /\ UNCHANGED <<modals, overwrites>>
    /\ AddFrame

\* What is typed into the form: a mention between words, an id alone, runs of
\* digits one short of and one beyond the width of an id, a short number
\* before two ids, a long number before an id, an id nobody in the guild has,
\* and no digits.
AddInputs ==
    { <<Text(13), Digits("mod2", 18), Text(8)>>,
      <<Space(1), Digits("req", 19), Space(1)>>,
      <<Digits("mod2", IdMin - 1)>>,
      <<Digits("admin", IdMax)>>,
      <<Digits("admin", IdMax + 1)>>,
      <<Digits("mod2", 5), Text(1), Digits("mod2", 18), Text(1), Digits("admin", 20)>>,
      <<Digits("nobody", IdMax + 5), Text(1), Digits("mod2", 18)>>,
      <<Digits("nobody", 18)>>,
      <<Text(5)>>,
      <<Space(3)>> }

\* The calls of a claim in which every call returned.
ClaimCalls(claimant, role) ==
    { [kind |-> "take", actor |-> claimant, call |-> c, ok |-> TRUE] :
        c \in {"set_permissions(user)", "set_permissions(owner)", "edit_message"}
                \cup (IF role # None THEN {"set_permissions(role)"} ELSE {}) }

\* A Claimed ticket: the ticket as Spec leaves it when the accepted form of
\* LifeForms has been submitted and `claimant` has claimed it, every call
\* having returned.
ClaimedTicket(claimant) ==
    LET v    == Stripped(form)
        role == get_role(The(settings.staff_role_id))
        iv   == SetTakenBy(TicketInitialView(form.author, v), claimant)
        ow0  == CreationOverwrites(form.author, settings.staff_role_id)
        ow1  == IF role # None THEN [ow0 EXCEPT ![role] = StaffOverwrite] ELSE ow0
    IN  /\ settings_file = Some(settings)
        /\ intake_reply = MsgCreated
        /\ channels = 1
        /\ channel = "open"
        /\ topic = <<"ticket_owner", form.author>>
        /\ overwrites = [ow1 EXCEPT ![claimant] = FullAccess,
                                    ![form.author] = FullAccess]
        /\ posted = Some([mention |-> form.author, info |-> v])
        /\ message_view = "taken"
        /\ initial_view = iv
        /\ taken_view = TicketTakenView(iv)
        /\ tasks = EmptyBag
        /\ modals = EmptyBag
        /\ owner_in_guild \in BOOLEAN
        /\ owner_nick = Nothing
        /\ owner_roles = {}
        /\ dms = <<>>
        /\ audit = <<>>
        /\ delivery = <<>>
        /\ claimants = <<claimant>>
        /\ calls = IntakeCalls("ok") \cup ClaimCalls(claimant, role)

\* That state, with the claim as the one press delivered so far.
Claimed(claimant) == ClaimedTicket(claimant) /\ nInv = 1

InitCollab ==
    /\ settings \in { x \in LifeSettings : x.staff_role_id # Nothing }
    /\ form \in { f \in LifeForms : Validate(Stripped(f)) = None }
    /\ \E claimant \in { a \in Actors : Allowed(a, settings.staff_role_id) } :
          Claimed(claimant)

NextCollab ==
    \/ \E a \in Actors : add_moderator(a)
    \/ \E t \in BagToSet(tasks), ok \in BOOLEAN : AddSendModal(t, ok)
    \/ \E m \in BagToSet(modals), raw \in AddInputs, cached \in BOOLEAN :
          AddModeratorModal_on_submit(m, raw, cached)
    \/ \E t \in BagToSet(tasks), ok \in BOOLEAN : AddFetch(t, ok)
    \/ \E t \in BagToSet(tasks), ok \in BOOLEAN : AddSetPermissions(t, ok)
    \/ \E t \in BagToSet(tasks), ok \in BOOLEAN : AddSend(t, ok)
    \/ \E t \in BagToSet(tasks), ok \in BOOLEAN : AddAck(t, ok)
    \/ \E t \in BagToSet(tasks) : Respond(t)

SpecCollab == InitCollab /\ [][NextCollab]_vars

-----------------------------------------------------------------------------
(* The settings: load_settings, save_settings, str_to_int_maybe, the        *)
(* /settings command, SettingsSelect and GenericValueModal.on_submit.       *)
(*                                                                          *)
(* Here `settings` holds all eight keys of settings.json.  What is typed    *)
(* into GenericValueModal is a sequence of runs: Numeral(v, n) is the       *)
(* number v written in n decimal digits (leading zeros included); Chars(c,  *)
(* n) is n characters of class c: whitespace "s", a sign "+" or "-", the    *)
(* underscore "_", anything else "a".                                       *)

Numeral(v, n) == [c |-> "d", n |-> n, v |-> v]
Chars(c, n) == [c |-> c, n |-> n, v |-> 0]

IdKeys == {"ticket_button_channel_id", "log_channel_id", "ticket_category_id",
           "staff_role_id", "accepted_role_id"}
TextKeys == {"ticket_message_text", "accept_message", "reject_message"}

\* the options of SettingsSelect
OptionKeys == IdKeys \cup TextKeys

\* key.endswith("_id")
endswith_id(key) == key \in IdKeys

\* lines 38-47: the defaults of the first run
DefaultSettings ==
    [ticket_message_text      |-> <<Chars("a", 36)>>,
     ticket_button_channel_id |-> Nothing,
     log_channel_id           |-> Nothing,
     ticket_category_id       |-> Nothing,
     staff_role_id            |-> Nothing,
     accepted_role_id         |-> Nothing,
     accept_message           |-> <<Chars("a", 21)>>,
     reject_message           |-> <<Chars("a", 23)>>]

\* a save that writes nothing
save_settings_lost(file, data, ok) == file

\* save_settings: settings.json holds `data` when open() and json.dump
\* returned; when open() raised, it holds what it held
save_settings(file, data, ok) == IF ok THEN Some(data) ELSE file

\* load_settings on a start that finds `file`: the dict in memory and the file
\* afterwards
load_settings(file) ==
    IF file = Nothing
    THEN [settings |-> DefaultSettings,
          file     |-> save_settings(file, DefaultSettings, TRUE)]
    ELSE [settings |-> The(file), file |-> file]

RECURSIVE Pow10(_)
Pow10(n) == IF n = 0 THEN 1 ELSE 10 * Pow10(n - 1)

\* the number a sequence of digit groups spells, underscores left out
RECURSIVE DigitsValue(_)
DigitsValue(b) ==
    IF b = <<>> THEN 0
    ELSE LET last == b[Len(b)]
             init == SubSeq(b, 1, Len(b) - 1)
         IN  IF last.c = "d" THEN DigitsValue(init) * Pow10(last.n) + last.v
             ELSE DigitsValue(init)

\* digit groups with single underscores between them
DigitGroups(b) ==
    /\ b # <<>>
    /\ Len(b) % 2 = 1
    /\ \A i \in 1..Len(b) :
          IF i % 2 = 1 THEN b[i].c = "d" ELSE b[i].c = "_" /\ b[i].n = 1

\* a conversion that takes every string for a number
str_to_int_maybe_lenient(s) ==
    LET t    == strip(s)
        sign == t # <<>> /\ t[1].c \in {"+", "-"}
        body == IF sign THEN Tail(t) ELSE t
    IN  Some(IF sign /\ t[1].c = "-" THEN 0 - DigitsValue(body)
             ELSE DigitsValue(body))

\* str_to_int_maybe: int(s), or None where int(s) raises.  int() takes
\* surrounding whitespace, one sign, and decimal digits with single
\* underscores between them.
str_to_int_maybe(s) ==
    LET t    == strip(s)
        sign == t # <<>> /\ t[1].c \in {"+", "-"}
        body == IF sign THEN Tail(t) ELSE t
    IN  IF (sign /\ t[1].n # 1) \/ ~DigitGroups(body) THEN Nothing
        ELSE Some(IF t[1].c = "-" THEN 0 - DigitsValue(body)
                  ELSE DigitsValue(body))

MsgMustBeNumber == "the value must be a number (ID)"
MsgUpdated      == "setting updated"

\* the SettingsView an administrator has on screen
SettingsView(a) == [actor |-> a, key |-> None]
\* the GenericValueModal opened for option_key
GenericValueModal(a, option_key) == [actor |-> a, key |-> option_key]

SettingsFrame ==
    UNCHANGED <<form, intake_reply, ticketVars, memberVars, logVars, claimants>>

\* /settings: the has_permissions check, then send_message with the view,
\* which replaces the view the administrator had on screen
settings_command(a, ok) ==
    /\ ok \in BOOLEAN
    /\ modals' = IF is_admin(a) /\ ok /\ ~BagIn(SettingsView(a), modals)
                 THEN modals (+) SetToBag({SettingsView(a)})
                 ELSE modals
    /\ UNCHANGED <<configVars, tasks, nInv, calls>>
    /\ SettingsFrame

\* SettingsSelect.callback: send_modal(GenericValueModal(key))
SettingsSelect_callback(v, key, ok) ==
    /\ BagIn(v, modals) /\ v.key = None
    /\ key \in OptionKeys
    /\ ok \in BOOLEAN
    /\ nInv < MaxInvocations
    /\ nInv' = nInv + 1
    /\ modals' = IF ok THEN modals (+) SetToBag({GenericValueModal(v.actor, key)})
                 ELSE modals
    /\ UNCHANGED <<configVars, tasks, calls>>
    /\ SettingsFrame

\* lines 268-275: whether the value is refused
Refuses(key, new_val) == endswith_id(key) /\ str_to_int_maybe(new_val) = Nothing

\* lines 268-275: the dict after settings[key] = ...
Assigned(key, new_val) ==
    [settings EXCEPT ![key] = IF endswith_id(key) THEN str_to_int_maybe(new_val)
                              ELSE new_val]

\* GenericValueModal.on_submit up to its only await, on the text new_val; ok
\* is whether save_settings returned.  When it raised, the exception leaves
\* on_submit (msg None) and Modal.on_error logs it.
GenericValueModal_on_submit(m, new_val, ok) ==
    /\ BagIn(m, modals) /\ m.key # None
    /\ ok \in BOOLEAN
    /\ modals' = modals (-) SetToBag({m})
    /\ IF Refuses(m.key, new_val)
       THEN /\ ok
            /\ UNCHANGED <<settings, settings_file, calls>>
            /\ Start([Reply("settings_submit", m.actor, MsgMustBeNumber)
                        EXCEPT !.raw = new_val])
       ELSE /\ settings' = Assigned(m.key, new_val)
            /\ settings_file' = save_settings(settings_file, settings', ok)
            /\ calls' = calls \cup {[kind |-> "settings_submit", actor |-> m.actor,
                                      call |-> "save_settings", ok |-> ok]}
            /\ Start([Reply("settings_submit", m.actor,
                            IF ok THEN MsgUpdated ELSE None)
                        EXCEPT !.raw = new_val])
    /\ UNCHANGED nInv
    /\ SettingsFrame

\* What an administrator types: ids, an id between spaces, a negative number,
\* zero, digit groups, leading zeros, a signed id, texts, and malformed numbers.
SettingsInputs ==
    { <<Numeral(StaffRoleId, 2)>>,
      <<Chars("s", 1), Numeral(LogChannelId, 2), Chars("s", 1)>>,
      <<Chars("-", 1), Numeral(5, 1)>>,
      <<Numeral(0, 1)>>,
      <<Numeral(1, 1), Chars("_", 1), Numeral(2, 1)>>,
      <<Numeral(7, 3)>>,
      <<Chars("+", 1), Numeral(UnknownId, 2)>>,
      <<Chars("a", 3)>>,
      <<Numeral(1, 1), Chars("a", 1), Numeral(5, 1)>>,
      <<Chars("s", 2)>>,
      <<Numeral(1, 1), Chars("_", 2), Numeral(2, 1)>> }

\* The options chosen in SettingsSelect: the two ids the ticket's handlers
\* read most, and a text.
ChosenKeys == {"staff_role_id", "log_channel_id", "accept_message"}

\* The first run: no settings.json, and no ticket yet.
InitSettings ==
    /\ settings = load_settings(Nothing).settings
    /\ settings_file = load_settings(Nothing).file
    /\ form \in LifeForms
    /\ intake_reply = Pending
    /\ channels = 0
    /\ channel = "none"
    /\ topic = <<>>
    /\ overwrites = [p \in Principals |-> NoOverwrite]
    /\ posted = Nothing
    /\ message_view = "none"
    /\ initial_view = NoView
    /\ taken_view = NoView
    /\ tasks = EmptyBag
    /\ modals = EmptyBag
    /\ nInv = 0
    /\ owner_in_guild = TRUE
    /\ owner_nick = Nothing
    /\ owner_roles = {}
    /\ dms = <<>>
    /\ audit = <<>>
    /\ delivery = <<>>
    /\ claimants = <<>>
    /\ calls = {}

NextSettings ==
    \/ \E a \in Actors, ok \in BOOLEAN : settings_command(a, ok)
    \/ \E v \in BagToSet(modals), key \in ChosenKeys, ok \in BOOLEAN :
          SettingsSelect_callback(v, key, ok)
    \/ \E m \in BagToSet(modals), new_val \in SettingsInputs, ok \in BOOLEAN :
          GenericValueModal_on_submit(m, new_val, ok)
    \/ \E t \in BagToSet(tasks) : Respond(t)

SpecSettings == InitSettings /\ [][NextSettings]_vars

-----------------------------------------------------------------------------
(* The audit channel: the _send_embed task send_log_embed schedules, and    *)
(* the /test_log command.  delivery[i] is where the task of audit[i]        *)
(* stands: "scheduled", "fetch" (awaiting bot.fetch_channel), "send"        *)
(* (awaiting ch.send), "sent", or "dropped" (the task ended without a       *)
(* message).                                                                *)

LogChannel == "channel:log"

\* a lookup that finds the log channel under every id
bot_get_channel_any(id) == LogChannel

\* bot.get_channel(id) / bot.fetch_channel(id): the channel, or None when
\* there is no such channel
bot_get_channel(id) == IF id = LogChannelId THEN LogChannel ELSE None

DeliveryFrame ==
    UNCHANGED <<configVars, form, intake_reply, ticketVars, tasks, modals, nInv,
                memberVars, audit, claimants, calls>>

\* lines 166-167: the task starts; bot.get_channel finds the channel in the
\* cache (`cached`) and ch.send is awaited, or bot.fetch_channel is awaited
SendEmbedRun(i, cached) ==
    /\ i \in 1..Len(delivery) /\ delivery[i] = "scheduled"
    /\ cached \in BOOLEAN
    /\ delivery' = [delivery EXCEPT ![i] =
                      IF bot_get_channel(audit[i].target) # None /\ cached
                      THEN "send" ELSE "fetch"]
    /\ DeliveryFrame

\* lines 168-172: bot.fetch_channel returns the channel, or raises and the
\* task ends
SendEmbedFetch(i, ok) ==
    /\ i \in 1..Len(delivery) /\ delivery[i] = "fetch"
    /\ ok \in BOOLEAN
    /\ ok => bot_get_channel(audit[i].target) # None
    /\ delivery' = [delivery EXCEPT ![i] = IF ok THEN "send" ELSE "dropped"]
    /\ DeliveryFrame

\* lines 173-175: ch.send(embed=embed) returns, or raises and is swallowed
SendEmbedSend(i, ok) ==
    /\ i \in 1..Len(delivery) /\ delivery[i] = "send"
    /\ ok \in BOOLEAN
    /\ delivery' = [delivery EXCEPT ![i] = IF ok THEN "sent" ELSE "dropped"]
    /\ DeliveryFrame

MsgTestLog == "test log sent (if the channel is configured)"

\* /test_log: the has_permissions check, send_log_embed at level debug, then
\* the reply
test_log(a) ==
    /\ nInv < MaxInvocations
    /\ nInv' = nInv + 1
    /\ IF is_admin(a)
       THEN /\ send_log_embed("debug", "test log", a, None, FALSE, NoText)
            /\ Start(Reply("test_log", a, MsgTestLog))
       ELSE UNCHANGED <<logVars, tasks>>
    /\ UNCHANGED <<configVars, form, intake_reply, ticketVars, modals, memberVars,
                   claimants, calls>>

\* What log_channel_id can hold: nothing, 0, the log channel's id, or an id
\* no channel has.
AuditSettings ==
    { Settings(Some(StaffRoleId), Some(AcceptedRoleId), log) :
        log \in {Nothing, Some(0), Some(LogChannelId), Some(UnknownId)} }

\* A Claimed ticket, under each of these settings.
InitAudit ==
    /\ settings \in AuditSettings
    /\ form \in { f \in LifeForms : Validate(Stripped(f)) = None }
    /\ \E claimant \in { a \in Actors : Allowed(a, settings.staff_role_id) } :
          Claimed(claimant)

NextAudit ==
    \/ \E a \in Actors : test_log(a)
    \/ \E a \in Actors : accept_final(a)
    \/ \E a \in Actors : reject_ticket(a)
    \/ \E m \in BagToSet(modals), r \in BOOLEAN : RejectReasonModal_on_submit(m, r)
    \/ \E t \in BagToSet(tasks) : Respond(t)
    \/ \E t \in BagToSet(tasks), ok \in BOOLEAN : AcceptNick(t, ok)
    \/ \E t \in BagToSet(tasks), ok \in BOOLEAN : AcceptRole(t, ok)
    \/ \E t \in BagToSet(tasks), ok \in BOOLEAN : AcceptDm(t, ok)
    \/ \E t \in BagToSet(tasks), ok \in BOOLEAN : AcceptAck(t, ok)
    \/ \E t \in BagToSet(tasks), ok \in BOOLEAN : AcceptDelete(t, ok)
    \/ \E t \in BagToSet(tasks), ok \in BOOLEAN : RejectSendModal(t, ok)
    \/ \E t \in BagToSet(tasks), ok \in BOOLEAN : RejectDm(t, ok)
    \/ \E t \in BagToSet(tasks), ok \in BOOLEAN : RejectAck(t, ok)
    \/ \E t \in BagToSet(tasks), ok \in BOOLEAN : RejectDelete(t, ok)
    \/ \E i \in 1..Len(delivery), cached \in BOOLEAN : SendEmbedRun(i, cached)
    \/ \E i \in 1..Len(delivery), ok \in BOOLEAN : SendEmbedFetch(i, ok)
    \/ \E i \in 1..Len(delivery), ok \in BOOLEAN : SendEmbedSend(i, ok)

SpecAudit == InitAudit /\ [][NextAudit]_vars

-----------------------------------------------------------------------------
(* Accept and reject on one Claimed ticket: the presses that follow the     *)
(* claim, counted from the claim on.                                        *)

InitResolve ==
    /\ settings = Settings(Some(StaffRoleId), Some(AcceptedRoleId), Some(LogChannelId))
    /\ form \in { f \in LifeForms : Validate(Stripped(f)) = None }
    /\ ClaimedTicket("mod1")
    /\ owner_in_guild
    /\ nInv = 0

NextResolve ==
    \/ \E a \in Actors : accept_final(a)
    \/ \E a \in Actors : reject_ticket(a)
    \/ \E m \in BagToSet(modals), r \in BOOLEAN : RejectReasonModal_on_submit(m, r)
    \/ \E t \in BagToSet(tasks) : Respond(t)
    \/ \E t \in BagToSet(tasks), ok \in BOOLEAN : AcceptNick(t, ok)
    \/ \E t \in BagToSet(tasks), ok \in BOOLEAN : AcceptRole(t, ok)
    \/ \E t \in BagToSet(tasks), ok \in BOOLEAN : AcceptDm(t, ok)
    \/ \E t \in BagToSet(tasks), ok \in BOOLEAN : AcceptAck(t, ok)
    \/ \E t \in BagToSet(tasks), ok \in BOOLEAN : AcceptDelete(t, ok)
    \/ \E t \in BagToSet(tasks), ok \in BOOLEAN : RejectSendModal(t, ok)
    \/ \E t \in BagToSet(tasks), ok \in BOOLEAN : RejectDm(t, ok)
    \/ \E t \in BagToSet(tasks), ok \in BOOLEAN : RejectAck(t, ok)
    \/ \E t \in BagToSet(tasks), ok \in BOOLEAN : RejectDelete(t, ok)

SpecResolve == InitResolve /\ [][NextResolve]_vars

-----------------------------------------------------------------------------
(* Properties of the intake form, checked under SpecIntake.                 *)

\* on_submit has run on the submission
Handled == intake_reply # Pending

\* no channel was created and no ticket exists
NoTicket ==
    channels = 0 /\ channel = "none" /\ posted = Nothing /\ message_view = "none"

Rejections == {MsgNick, MsgAge, MsgPurpose, MsgFromWhere, MsgReadRules}

\* the submitted values with leading and trailing whitespace removed
Read ==
    [nick |-> strip(form.nick), age |-> strip(form.age),
     purpose |-> strip(form.purpose), from_where |-> strip(form.from_where),
     read_rules |-> strip(form.read_rules)]

\* the five fields in form order, each with its bounds and its message
FieldTable(f) ==
    << [v |-> f.nick, lo |-> NickMin, hi |-> NickMax, msg |-> MsgNick],
       [v |-> f.age, lo |-> AgeMin, hi |-> AgeMax, msg |-> MsgAge],
       [v |-> f.purpose, lo |-> PurposeMin, hi |-> PurposeMax, msg |-> MsgPurpose],
       [v |-> f.from_where, lo |-> FromWhereMin, hi |-> FromWhereMax,
        msg |-> MsgFromWhere],
       [v |-> f.read_rules, lo |-> ReadRulesMin, hi |-> ReadRulesMax,
        msg |-> MsgReadRules] >>

\* the fields of f whose length is outside its bound
OutOfBound(f) ==
    { i \in 1..5 : LET x == FieldTable(f)[i] IN len(x.v) < x.lo \/ len(x.v) > x.hi }

\* the fields of f that fail: out of bound, or an age that is not all digits
Failing(f) == OutOfBound(f) \cup (IF HasNonDigit(f.age) THEN {2} ELSE {})

First(is) == CHOOSE i \in is : \A j \in is : i <= j

IntakeCall(c, ok) ==
    [kind |-> "intake", actor |-> form.author, call |-> c, ok |-> ok] \in calls

\* C6, as worded: a submission with a field whose length is outside its bound
\* is rejected with the message of such a field, and no channel is created.
C6_Original ==
    (Handled /\ OutOfBound(form) # {}) =>
        /\ NoTicket
        /\ \E i \in OutOfBound(form) : intake_reply = FieldTable(form)[i].msg

\* C6: a submission with a field whose length, after surrounding whitespace
\* is stripped, is outside its bound is rejected, no channel is created and
\* no ticket exists; the message is that of the first field, in form order,
\* that fails its check (the stripped length and, for age, all digits).
C6_StrippedLengthRejected ==
    (Handled /\ OutOfBound(Read) # {}) =>
        /\ NoTicket
        /\ intake_reply = FieldTable(Read)[First(Failing(Read))].msg

\* C6: a purpose of 49 characters after a leading space (50 as typed) was
\* rejected with the purpose message
C6_Witness ==
    /\ Handled
    /\ len(form.purpose) = PurposeMin
    /\ len(Read.purpose) = PurposeMin - 1
    /\ intake_reply = MsgPurpose
    /\ NoTicket

\* C7, as worded: a submission whose age holds a non-digit character is
\* rejected and no channel is created.
C7_Original ==
    (Handled /\ HasNonDigit(form.age)) => (NoTicket /\ intake_reply \in Rejections)

\* C7: a submission whose age, after surrounding whitespace is stripped,
\* holds a non-digit character is rejected (with the age message, or the
\* nickname message when the nickname fails first) and no channel is created,
\* whatever the age's length and the other fields.
C7_NonDigitAgeRejected ==
    (Handled /\ HasNonDigit(Read.age)) =>
        (NoTicket /\ intake_reply \in {MsgNick, MsgAge})

\* C7: an age of a digit followed by a letter, within the length bound, was
\* rejected with the age message
C7_Witness ==
    /\ Handled
    /\ form.age = D(1) \o A(1)
    /\ intake_reply = MsgAge
    /\ NoTicket

\* the channel of the ticket: one channel, its topic the owner's identity
TicketOpen ==
    channels = 1 /\ channel = "open" /\ topic = <<"ticket_owner", form.author>>

\* the ticket is Open with no claimant
OpenUnclaimed ==
    /\ message_view = "initial"
    /\ initial_view.owner = form.author
    /\ initial_view.taken_by = None
    /\ claimants = <<>>

\* C8, as worded: a submission whose five fields lie within their bounds
\* creates one channel whose topic encodes the owner, posts the summary and
\* yields an Open ticket with no claimant.
C8_Original ==
    (Handled /\ OutOfBound(form) = {}) =>
        (TicketOpen /\ posted # Nothing /\ OpenUnclaimed)

\* C8: a submission whose five fields, after stripping, lie within their
\* bounds (purpose of exactly 50 included) and whose age is all digits is not
\* rejected: create_text_channel is called, and when it returns there is
\* exactly one channel, its topic encoding the owner; when channel.send
\* returns too, the summary of the five stripped values is posted and the
\* ticket is Open with no claimant.  When create_text_channel raises there is
\* no channel.  A purpose of 49 characters after stripping is rejected.
C8_AcceptedCreatesTicket ==
    /\ (Handled /\ Failing(Read) = {}) =>
          /\ intake_reply \notin Rejections
          /\ IntakeCall("create_text_channel", TRUE)
                \/ IntakeCall("create_text_channel", FALSE)
          /\ IntakeCall("create_text_channel", TRUE) => TicketOpen
          /\ IntakeCall("create_text_channel", FALSE) => NoTicket
          /\ IntakeCall("channel.send", TRUE) =>
                /\ posted = Some([mention |-> form.author, info |-> Read])
                /\ OpenUnclaimed
    /\ (Handled /\ len(Read.purpose) = PurposeMin - 1) =>
          (NoTicket /\ intake_reply \in Rejections)

\* C8: a submission with a purpose of exactly 50 characters created the ticket
C8_Witness ==
    /\ Handled
    /\ len(Read.purpose) = PurposeMin
    /\ IntakeCall("channel.send", TRUE)
    /\ TicketOpen
    /\ OpenUnclaimed
    /\ intake_reply = MsgCreated

\* C9: the channel as created denies view to the default role and grants it
\* nothing, grants view to the requester and the bot, grants access to the
\* staff role only when staff_role_id is set to it, and gives no other
\* principal any overwrite.
C9_PrivateAtCreation ==
    channel = "open" =>
        /\ overwrites[Everyone] = PermissionOverwrite("deny", None, None)
        /\ overwrites[form.author].view_channel = "allow"
        /\ overwrites[Bot].view_channel = "allow"
        /\ \A p \in Principals \ {Everyone, form.author, Bot} :
              overwrites[p] # NoOverwrite =>
                  /\ settings.staff_role_id # Nothing
                  /\ p = get_role(The(settings.staff_role_id))
        /\ settings.staff_role_id = Some(StaffRoleId) =>
              overwrites[StaffRole].view_channel = "allow"

\* C9: a channel created while the staff role is configured, visible to it
C9_Witness ==
    /\ channel = "open"
    /\ settings.staff_role_id = Some(StaffRoleId)
    /\ overwrites[StaffRole].view_channel = "allow"
    /\ overwrites[Everyone].view_channel = "deny"
    /\ overwrites["mod1"] = NoOverwrite

-----------------------------------------------------------------------------
(* Properties of the ticket's life, checked under Spec.                     *)

\* the handlers a step starts, and those it ends
Started == BagToSet(tasks' (-) tasks)
Ended == BagToSet(tasks (-) tasks')

\* the step delivers a press by actor a to the handler `kind`
Pressed(kind, a) ==
    /\ nInv' = nInv + 1
    /\ \E t \in Started : t.kind = kind /\ t.actor = a

\* the step answers the press msg and does nothing else
Refused(kind, a, msg) ==
    /\ tasks' = tasks (+) SetToBag({Reply(kind, a, msg)})
    /\ UNCHANGED <<configVars, form, intake_reply, ticketVars, modals, memberVars,
                   audit, claimants, calls>>

\* actor a holds the role staff_role_id names
HoldsStaffRole(a) ==
    /\ settings.staff_role_id # Nothing
    /\ get_role(The(settings.staff_role_id)) \in roles_of(a)

\* C1: a claim press by an authorized actor (the staff role or administrator,
\* a staff role being configured) either finds the claimant unset and records
\* the actor as claimant in that same step, or is answered "already claimed"
\* and changes nothing; so at most one claim ever records a claimant.
C1_ExactlyOneClaim ==
    [][ /\ Len(claimants') <= 1
        /\ \A a \in Actors :
              (Pressed("take", a) /\ settings.staff_role_id # Nothing
                 /\ (HoldsStaffRole(a) \/ is_admin(a))) =>
                 IF initial_view.taken_by = None
                 THEN /\ initial_view'.taken_by = a
                      /\ claimants' = <<a>>
                      /\ \A t \in Started : t.pc # "respond"
                 ELSE Refused("take", a, MsgAlreadyTaken) ]_vars

\* C1: mod1's claim is suspended in its permission updates while mod2's
\* claim has been answered "already claimed"
C1_Witness ==
    /\ initial_view.taken_by = "mod1"
    /\ claimants = <<"mod1">>
    /\ \E t \in BagToSet(tasks) :
          t.kind = "take" /\ t.actor = "mod1" /\ t.pc \in {"set_role", "set_user"}
    /\ BagIn(Reply("take", "mod2", MsgAlreadyTaken), tasks)

\* C2: an accept, reject or delete press by an actor who is neither the
\* recorded claimant nor an administrator is answered with the refusal and
\* changes nothing else (nickname, roles, DMs, audit, reject form, channel,
\* views and claimant stay as they were), and so does the sending of that
\* answer.
C2_OnlyClaimantOrAdmin ==
    [][ /\ \A kind \in {"accept", "reject", "delete"}, a \in Actors :
              (Pressed(kind, a) /\ a # initial_view.taken_by /\ ~is_admin(a)) =>
                  Refused(kind, a, MsgOnlyTaker)
        /\ (\E t \in Ended : t.pc = "respond" /\ t.msg = MsgOnlyTaker) =>
              UNCHANGED <<configVars, form, intake_reply, ticketVars, modals,
                          memberVars, audit, claimants, calls>> ]_vars

\* C2: mod2's accept press on the ticket mod1 claimed has been refused
C2_Witness ==
    /\ initial_view.taken_by = "mod1"
    /\ message_view = "taken"
    /\ channel = "open"
    /\ BagIn(Reply("accept", "mod2", MsgOnlyTaker), tasks)
    /\ dms = <<>> /\ audit = <<>> /\ owner_nick = Nothing

\* an accept or a reject submission ran to its end
Completed ==
    \E c \in calls : c.kind \in {"accept", "reject_submit"} /\ c.call = "channel.delete"

\* an accept or a reject submission's chan.delete() returned
Resolved ==
    \E c \in calls :
        c.kind \in {"accept", "reject_submit"} /\ c.call = "channel.delete" /\ c.ok

C4_OnlyStaffOrAdminClaims ==
    [][ /\ \A a \in Actors :
              (Pressed("take", a) /\ ~HoldsStaffRole(a) /\ ~is_admin(a)) =>
                  \/ Refused("take", a, MsgNotAllowed)
                  \/ Refused("take", a, MsgNoStaffRole)
        /\ claimants' # claimants =>
              \E a \in Actors :
                  /\ claimants' = Append(claimants, a)
                  /\ HoldsStaffRole(a) \/ is_admin(a) ]_vars

\* C4: the requester's claim press has been refused, the ticket still Open
C4_Witness ==
    /\ BagIn(Reply("take", Requester, MsgNotAllowed), tasks)
    /\ initial_view.taken_by = None
    /\ message_view = "initial"
    /\ overwrites = CreationOverwrites(Requester, settings.staff_role_id)

\* C5: while staff_role_id is null every claim press, an administrator's
\* included, is answered with the configuration error and changes nothing:
\* no claimant is recorded, permissions and the message's view stay.
C5_NoStaffRoleNoClaim ==
    [][ settings.staff_role_id = Nothing =>
          /\ \A a \in Actors :
                Pressed("take", a) => Refused("take", a, MsgNoStaffRole)
          /\ claimants' = <<>>
          /\ message_view' # "taken" ]_vars

\* C5: the administrator's claim press has been answered with the
\* configuration error, the ticket still Open
C5_Witness ==
    /\ settings.staff_role_id = Nothing
    /\ BagIn(Reply("take", "admin", MsgNoStaffRole), tasks)
    /\ initial_view.taken_by = None
    /\ message_view = "initial"

CanSendAndView(p) ==
    overwrites[p].send_messages = "allow" /\ overwrites[p].view_channel = "allow"

\* C10, as worded: after a successful claim (the claimant recorded, the
\* message showing the claimed-state buttons) the staff role has no send
\* access, and the claimant and the requester have send and view access.
C10_Original ==
    (claimants # <<>> /\ message_view = "taken" /\ channel = "open") =>
        /\ overwrites[StaffRole].send_messages # "allow"
        /\ CanSendAndView(claimants[1])
        /\ CanSendAndView(Requester)

\* C10: once a claim has recorded its claimant, the requester has send and
\* view access in the ticket's channel; the staff role is denied send once
\* the claim's set_permissions call for the role has returned; the claimant
\* has send and view access once the call for the claimant has returned.
C10_SendAccessAfterClaim ==
    (claimants # <<>> /\ channel = "open") =>
        /\ CanSendAndView(Requester)
        /\ \A c \in calls :
              (c.kind = "take" /\ c.ok) =>
                  /\ c.call = "set_permissions(role)" =>
                        overwrites[StaffRole].send_messages = "deny"
                  /\ c.call = "set_permissions(user)" =>
                        c.actor = claimants[1] /\ CanSendAndView(c.actor)

\* C10: mod1 has claimed, the staff role is denied send, mod1 can send
C10_Witness ==
    /\ claimants = <<"mod1">>
    /\ channel = "open"
    /\ message_view = "taken"
    /\ overwrites[StaffRole].send_messages = "deny"
    /\ CanSendAndView("mod1")
    /\ CanSendAndView(Requester)

\* C11: while the ticket's claimant is unset, no accept, reject or delete has
\* had an effect: no resolution DM, no role grant, no nickname change, no
\* audit entry, no reject form, no call of such a handler, and the channel
\* has not been deleted.
C11_ResolutionOnlyFromClaimed ==
    initial_view.taken_by = None =>
        /\ dms = <<>>
        /\ owner_roles = {}
        /\ owner_nick = Nothing
        /\ audit = <<>>
        /\ modals = EmptyBag
        /\ channel # "deleted"
        /\ \A c \in calls : c.kind \in {"intake", "take"}
        /\ \A t \in BagToSet(tasks) : t.kind = "take"

\* C11: a claimed ticket was accepted: DM, audit entry, channel deleted
C11_Witness ==
    /\ initial_view.taken_by = "mod1"
    /\ dms # <<>>
    /\ audit # <<>>
    /\ channel = "deleted"

\* the accepted role is configured and the guild has it
AcceptedRoleResolves ==
    /\ settings.accepted_role_id # Nothing
    /\ settings.accepted_role_id # Some(0)
    /\ get_role(The(settings.accepted_role_id)) # None

\* the step moves an accept handler from its await `from` to its await `to`
AcceptMoves(t, to) ==
    \E u \in Started : u.kind = "accept" /\ u.actor = t.actor /\ u.pc = to

\* C12: in accept, whether the nickname change, the role grant or the DM
\* returns or raises, the handler goes on to the next step (the role grant
\* when the accepted role resolves, the DM, the acknowledgement); the audit
\* entry is emitted without a call that can raise into the handler; and
\* whether chan.delete() returns or raises, the handler ends there with
\* nothing else changed.
C12_AcceptFailuresSwallowed ==
    [][ \A t \in Ended :
          t.kind = "accept" =>
             /\ t.pc = "nick" =>
                   AcceptMoves(t, IF AcceptedRoleResolves THEN "role" ELSE "dm")
             /\ t.pc = "role" => AcceptMoves(t, "dm")
             /\ t.pc = "dm" => AcceptMoves(t, "ack")
             /\ (t.pc = "ack" /\ Len(audit') > Len(audit)) => AcceptMoves(t, "delete")
             /\ t.pc = "delete" =>
                   UNCHANGED <<settings, memberVars, audit, modals, overwrites,
                               message_view, taken_view, initial_view>> ]_vars

\* C12: nickname change, role grant and DM all raised, and the audit entry
\* was emitted and the channel deleted all the same
C12_Witness ==
    /\ \A call \in {"member.edit", "member.add_roles", "member.send"} :
          [kind |-> "accept", actor |-> "mod1", call |-> call, ok |-> FALSE] \in calls
    /\ owner_nick = Nothing /\ owner_roles = {} /\ dms = <<>>
    /\ audit # <<>>
    /\ channel = "deleted"

AcceptCall(call, ok) ==
    \E c \in calls : c.kind = "accept" /\ c.call = call /\ c.ok = ok

AcceptCalled(call) == AcceptCall(call, TRUE) \/ AcceptCall(call, FALSE)

\* an accept handler has run and none is suspended any more
AcceptOver ==
    /\ \E c \in calls : c.kind = "accept"
    /\ \A t \in BagToSet(tasks) : t.kind # "accept"

\* C13, as worded: a ticket accepted by the claimant or an administrator
\* while accepted_role_id is not configured has had no role grant attempted,
\* the nickname change and the DM attempted, and its channel deleted.
C13_Original ==
    (settings.accepted_role_id = Nothing /\ AcceptOver) =>
        /\ ~AcceptCalled("member.add_roles")
        /\ AcceptCalled("member.edit")
        /\ AcceptCalled("member.send")
        /\ channel = "deleted"

\* C13: while accepted_role_id is not configured, no role grant is ever
\* attempted; an accept by the claimant or an administrator attempts the
\* nickname change when the requester is still a guild member (and goes
\* straight to the acknowledgement when not), then the DM, then the
\* acknowledgement; once the acknowledgement has returned chan.delete() is
\* attempted, and once that has returned the channel is deleted.
C13_AcceptWithoutRole ==
    [][ settings.accepted_role_id = Nothing =>
          /\ ~AcceptCalled("member.add_roles")'
          /\ owner_roles' = {}
          /\ \A t \in BagToSet(tasks') : t.pc # "role"
          /\ \A a \in Actors :
                (Pressed("accept", a) /\ (a = initial_view.taken_by \/ is_admin(a))) =>
                    \E u \in Started :
                        u.pc = IF owner_in_guild THEN "nick" ELSE "ack"
          /\ \A t \in Ended :
                t.kind = "accept" =>
                   /\ t.pc = "nick" => AcceptMoves(t, "dm")
                   /\ t.pc = "dm" => AcceptMoves(t, "ack")
          /\ \A c \in calls' :
                (c.kind = "accept" /\ c.call = "send_message" /\ c.ok) =>
                    \/ \E c2 \in calls' :
                          c2.kind = "accept" /\ c2.actor = c.actor
                             /\ c2.call = "channel.delete"
                    \/ \E t \in BagToSet(tasks') :
                          t.kind = "accept" /\ t.actor = c.actor /\ t.pc = "delete"
          /\ AcceptCall("channel.delete", TRUE)' => channel' = "deleted" ]_vars

\* C13: with no accepted role configured a ticket was accepted: nickname
\* changed, DM sent, no role granted, channel deleted
C13_Witness ==
    /\ settings.accepted_role_id = Nothing
    /\ AcceptCall("member.edit", TRUE)
    /\ AcceptCall("member.send", TRUE)
    /\ ~AcceptCalled("member.add_roles")
    /\ owner_nick # Nothing
    /\ owner_roles = {}
    /\ channel = "deleted"

\* a reject submission has run and none is suspended any more
RejectOver ==
    /\ \E c \in calls : c.kind = "reject_submit"
    /\ \A t \in BagToSet(tasks) : t.kind # "reject_submit"

\* the step moves a reject submission to its await `to`
RejectMoves(t, to) ==
    \E u \in Started : u.kind = "reject_submit" /\ u.actor = t.actor /\ u.pc = to

\* the calls the step awaited
NewCalls == calls' \ calls

\* C14, as worded: after a reject submission exactly one audit entry exists,
\* warning-level, carrying claimant, requester, channel and reason, and the
\* channel is deleted.
C14_Original ==
    RejectOver =>
        /\ Len(audit) = 1
        /\ audit[1].level = "warning"
        /\ audit[1].moderator = initial_view.taken_by
        /\ audit[1].owner_id = Requester
        /\ audit[1].channel = "ticket"
        /\ channel = "deleted"

\* C14: a reject submission comes from the claimant or an administrator; its
\* DM step hands on to the acknowledgement whether the DM returned or raised
\* (when the requester had left, the submission starts at the
\* acknowledgement); when the acknowledgement has returned, exactly one
\* warning-level entry carrying the submitting moderator, the requester, the
\* channel and whether a reason was given is emitted if a log channel is
\* configured, none if not, and chan.delete() is attempted; when that
\* returns the channel is deleted.  When the acknowledgement raises, no
\* entry is emitted and the handler ends.
C14_RejectAuditThenDelete ==
    [][ /\ \A t \in BagToSet(tasks') :
              t.kind = "reject_submit" =>
                  (t.actor = initial_view'.taken_by \/ is_admin(t.actor))
        /\ \A t \in Ended :
              t.kind = "reject_submit" =>
                 /\ t.pc = "dm" => (RejectMoves(t, "ack") /\ audit' = audit)
                 /\ (t.pc = "ack" /\ \E c \in NewCalls : c.ok) =>
                       RejectMoves(t, "delete")
                 /\ t.pc = "ack" =>
                       IF RejectMoves(t, "delete")
                       THEN /\ channel' = channel
                            /\ IF settings.log_channel_id \in {Nothing, Some(0)}
                               THEN audit' = audit
                               ELSE /\ Len(audit') = Len(audit) + 1
                                    /\ SubSeq(audit', 1, Len(audit)) = audit
                                    /\ LET e == audit'[Len(audit')]
                                       IN  /\ e.level = "warning"
                                           /\ e.moderator = t.actor
                                           /\ e.owner_id = Requester
                                           /\ e.channel = "ticket"
                                           /\ e.reason = t.reason
                       ELSE audit' = audit /\ Started = {}
                 /\ t.pc = "delete" =>
                       /\ audit' = audit
                       /\ (\E c \in NewCalls : c.ok) => channel' = "deleted" ]_vars

\* C14: an administrator rejected, with a reason, the ticket mod1 had claimed
\* after the requester had left: no DM, one warning entry naming the
\* administrator, channel deleted
C14_Witness ==
    /\ initial_view.taken_by = "mod1"
    /\ ~owner_in_guild
    /\ dms = <<>>
    /\ Len(audit) = 1
    /\ audit[1].level = "warning"
    /\ audit[1].moderator = "admin"
    /\ audit[1].reason
    /\ channel = "deleted"

\* a delete handler has run and none is suspended any more
DeleteOver ==
    /\ \E c \in calls : c.kind = "delete"
    /\ \A t \in BagToSet(tasks) : t.kind # "delete"

\* what a delete must leave alone
DeleteLeaves ==
    UNCHANGED <<settings, owner_in_guild, owner_nick, owner_roles, dms, audit,
                modals, channels, topic, overwrites, posted, message_view,
                initial_view, taken_view, claimants>>

\* C15, as worded: after a delete by the claimant or an administrator the
\* channel is deleted, and no DM, audit entry, role or nickname change exists.
C15_Original ==
    DeleteOver =>
        /\ channel = "deleted"
        /\ dms = <<>> /\ audit = <<>> /\ owner_roles = {} /\ owner_nick = Nothing

\* C15: a delete press by the claimant or an administrator starts the
\* acknowledgement and changes nothing; the acknowledgement and the deletion
\* steps send no DM, emit no audit entry, change no role, nickname,
\* permission, view or setting; once the acknowledgement has returned
\* channel.delete() is attempted, and once that has returned the channel is
\* deleted.
C15_DeleteOnlyDeletes ==
    [][ /\ \A a \in Actors :
              (Pressed("delete", a) /\ (a = initial_view.taken_by \/ is_admin(a))) =>
                  /\ \E u \in Started : u.kind = "delete" /\ u.pc = "ack"
                  /\ DeleteLeaves /\ channel' = channel
        /\ \A t \in Ended :
              (t.kind = "delete" /\ t.pc # "respond") =>
                  /\ DeleteLeaves
                  /\ t.pc = "ack" => channel' = channel
                  /\ t.pc = "delete" => Started = {}
        /\ \A c \in calls' :
              (c.kind = "delete" /\ c.call = "send_message" /\ c.ok) =>
                  \/ \E c2 \in calls' :
                        c2.kind = "delete" /\ c2.actor = c.actor
                           /\ c2.call = "channel.delete"
                  \/ \E t \in BagToSet(tasks') :
                        t.kind = "delete" /\ t.actor = c.actor /\ t.pc = "delete"
        /\ (\E c \in calls' : c.kind = "delete" /\ c.call = "channel.delete" /\ c.ok)
              => channel' = "deleted" ]_vars

\* C15: with a log channel configured the claimant deleted the ticket: the
\* channel is gone, no DM, no audit entry, no role, no nickname
C15_Witness ==
    /\ settings.log_channel_id # Nothing
    /\ [kind |-> "delete", actor |-> "mod1", call |-> "channel.delete", ok |-> TRUE]
          \in calls
    /\ initial_view.taken_by = "mod1"
    /\ channel = "deleted"
    /\ dms = <<>> /\ audit = <<>> /\ owner_roles = {} /\ owner_nick = Nothing

-----------------------------------------------------------------------------
(* Properties of add-collaborator, checked under SpecCollab.                *)

\* a number of at least IdMin digits stands in the text
Recognised(raw) == \E i \in 1..Len(raw) : raw[i].c = "d" /\ raw[i].n >= IdMin

\* some member of the guild has this id
IsMember(id) ==
    \E a \in Actors : member_id(a) = id /\ (a = Requester => owner_in_guild)

\* the submitted text names nobody of the guild
Unidentified(t) == ~Recognised(t.raw) \/ \A id \in t.target : ~IsMember(id)

\* C16: no step of add-collaborator changes the ticket's state or its
\* claimant; and a submission whose text holds no identity, or whose identity
\* is no member of the guild, is answered with an error only: its handler
\* waits for the member lookup or replies with the error, and none of its
\* steps changes the channel's permissions, posts a mention or writes an
\* audit entry.
C16_AddLeavesTicketAlone ==
    [][ /\ channel' = channel
        /\ message_view' = message_view
        /\ initial_view' = initial_view
        /\ taken_view' = taken_view
        /\ claimants' = claimants
        /\ \A t \in Started \cup Ended :
              (t.kind = "add_submit" /\ Unidentified(t)) =>
                 /\ overwrites' = overwrites
                 /\ audit' = audit
                 /\ posted' = posted
                 /\ \A c \in NewCalls :
                       c.call \notin {"set_permissions(member)", "channel.send"}
                 /\ \A u \in Started :
                       \/ u.pc = "respond" /\ u.msg = MsgNoId /\ u.target = Nothing
                       \/ u.pc = "respond" /\ u.msg = MsgNotFound
                       \/ u.pc = "fetch" /\ Recognised(u.raw) ]_vars

\* C16 witness: on a claimed ticket, a submission naming an id nobody of the
\* guild has is being answered "not found".
C16_Witness ==
    /\ \E t \in BagToSet(tasks) :
          /\ t.kind = "add_submit" /\ t.pc = "respond" /\ t.msg = MsgNotFound
          /\ t.target # Nothing /\ ~IsMember(The(t.target))
          /\ initial_view.taken_by # None

\* the run the sentence of C17 speaks of: the first run of digits whose length
\* is between IdMin and IdMax
RunsOfIdLength(raw) ==
    { i \in 1..Len(raw) : raw[i].c = "d" /\ raw[i].n >= IdMin /\ raw[i].n <= IdMax }

FirstRunOfIdLength(raw) ==
    LET i == First(RunsOfIdLength(raw)) IN Id(raw[i].v, raw[i].n)

\* C17, as stated: the identity a submission uses is the first run of digits
\* of 17 to 20 characters, and a text without such a run is rejected with the
\* "no id" error, having identified nobody.
C17_Original ==
    \A t \in BagToSet(tasks) :
       t.kind = "add_submit" =>
          IF RunsOfIdLength(t.raw) = {}
          THEN t.pc = "respond" /\ t.msg = MsgNoId /\ t.target = Nothing
          ELSE t.target = Some(FirstRunOfIdLength(t.raw))

\* C17 failing case: the text is a number longer than any id followed by a
\* member's id, and the submission is answered "not found" for the first
\* IdMax digits of the long number.
C17_Witness ==
    \E t \in BagToSet(tasks) :
       /\ t.kind = "add_submit" /\ t.pc = "respond" /\ t.msg = MsgNotFound
       /\ RunsOfIdLength(t.raw) # {}
       /\ IsMember(FirstRunOfIdLength(t.raw))
       /\ t.target # Some(FirstRunOfIdLength(t.raw))

-----------------------------------------------------------------------------
(* Properties of the settings, checked under SpecSettings.                  *)

\* the GenericValueModal forms submitted in this step
Submitted == BagToSet(modals (-) modals')

\* C18, as stated: in every reachable state every key ending in _id holds
\* null or a positive integer.
C18_Original ==
    \A key \in IdKeys : \A x \in settings[key] : x > 0

\* C18 failing case: the staff role id is a negative number, in memory and in
\* settings.json.
C18_Witness ==
    /\ \E x \in settings.staff_role_id : x < 0
    /\ settings_file = Some(settings)

\* the text is decimal digits and nothing else
PlainNumber(raw) == Len(raw) = 1 /\ raw[1].c = "d"

\* the text holds no digit
NonNumeric(raw) == \A i \in 1..Len(raw) : raw[i].c # "d"

\* C19: when a GenericValueModal for a key ending in _id is submitted, either
\* the text converts to an integer and the key then holds that integer (for a
\* text of digits only: the number they spell), or it does not convert (as
\* every text without a digit) and the submitter is told the value must be a
\* number, the settings in memory and settings.json staying as they were.
C19_IdUpdateStoresInteger ==
    [][ \A m \in Submitted : \A t \in Started :
           (m.key \in IdKeys /\ t.kind = "settings_submit") =>
              /\ IF str_to_int_maybe(t.raw) = Nothing
                 THEN t.msg = MsgMustBeNumber
                 ELSE /\ t.msg \in {MsgUpdated, None}
                      /\ settings'[m.key] = str_to_int_maybe(t.raw)
                      /\ \E x \in settings'[m.key] : x \in Int
              /\ PlainNumber(t.raw) => settings'[m.key] = Some(t.raw[1].v)
              /\ NonNumeric(t.raw) => t.msg = MsgMustBeNumber
              /\ t.msg = MsgMustBeNumber =>
                    settings' = settings /\ settings_file' = settings_file ]_vars

\* C19 witness: the staff role id was typed as the digits of StaffRoleId, the
\* update is being confirmed, and the key holds the integer in memory and in
\* settings.json.
C19_Witness ==
    /\ \E t \in BagToSet(tasks) :
          /\ t.kind = "settings_submit" /\ t.msg = MsgUpdated
          /\ t.raw = <<Numeral(StaffRoleId, 2)>>
    /\ settings.staff_role_id = Some(StaffRoleId)
    /\ settings_file = Some(settings)

\* every save_settings so far returned
SavesReturned == \A c \in calls : c.call = "save_settings" => c.ok

\* C20: after the first run settings.json holds the settings in memory; a
\* step that completes an update (its confirmation is being sent) leaves
\* settings.json holding the settings in memory; the settings in memory
\* change in no step but the submission of a GenericValueModal; and as long
\* as no save_settings has raised, settings.json holds the settings in memory.
C20_WrittenBack ==
    /\ settings_file = Some(settings)
    /\ [][ /\ settings' # settings => Submitted # {}
           /\ \A t \in Started :
                 (t.kind = "settings_submit" /\ t.msg = MsgUpdated) =>
                    settings_file' = Some(settings') ]_vars
    /\ [](SavesReturned => settings_file = Some(settings))

\* C20 witness: an update is completed after an earlier one whose save raised,
\* and settings.json holds both.
C20_Witness ==
    /\ \E t \in BagToSet(tasks) : t.kind = "settings_submit" /\ t.msg = MsgUpdated
    /\ ~SavesReturned
    /\ settings.staff_role_id # Nothing
    /\ settings.log_channel_id # Nothing
    /\ settings_file = Some(settings)

-----------------------------------------------------------------------------
(* Properties of the audit channel, checked under SpecAudit.                *)

\* a log channel id is set (None and 0 count as not set, line 133)
LogConfigured == \E id \in settings.log_channel_id : id # 0

\* C21, as stated: with no log channel id nothing is ever scheduled; with one,
\* every entry a handler emits is scheduled and none is dropped on its way to
\* the channel.
C21_Original ==
    /\ settings.log_channel_id = Nothing => audit = <<>>
    /\ settings.log_channel_id # Nothing =>
          /\ \A i \in 1..Len(delivery) : delivery[i] # "dropped"
          /\ (\E t \in BagToSet(tasks) : t.kind = "test_log") => audit # <<>>

\* C21: an entry is scheduled only when a log channel id is set, and reaches
\* a channel only when that id is the id of a channel and ch.send returned.
\* With no id set, a step of any handler leaves the audit trail as it was; a
\* /test_log by an administrator is answered whether or not the entry was
\* scheduled, and when the id is set the entry (level debug, for that id) is
\* scheduled in the same step; a /test_log by anybody else schedules nothing.
C21_AuditOnlyIfConfigured ==
    [][ /\ audit' # audit =>
              /\ LogConfigured
              /\ \E e \in {audit'[Len(audit')]} :
                    /\ audit' = Append(audit, e)
                    /\ e.target = The(settings.log_channel_id)
              /\ delivery' = Append(delivery, "scheduled")
        /\ ~LogConfigured => audit' = <<>> /\ delivery' = <<>>
        /\ (nInv' = nInv + 1 /\ Started = {}) => audit' = audit
        /\ \A a \in Actors :
              Pressed("test_log", a) =>
                 \A t \in Started :
                    /\ is_admin(a)
                    /\ t.pc = "respond" /\ t.msg = MsgTestLog
                    /\ calls' = calls
                    /\ IF LogConfigured
                       THEN /\ Len(audit') = Len(audit) + 1
                            /\ audit'[Len(audit')].level = "debug"
                            /\ audit'[Len(audit')].moderator = a
                       ELSE audit' = audit
        /\ \A j \in 1..Len(delivery') :
              delivery'[j] = "sent" =>
                 /\ audit'[j].target = LogChannelId
                 /\ j <= Len(delivery) /\ delivery[j] \in {"send", "sent"} ]_vars

\* C21 witness: the entry of a /test_log has reached the log channel while
\* the reply to the administrator is still on its way.
C21_Witness ==
    /\ \E j \in 1..Len(delivery) : delivery[j] = "sent" /\ audit[j].level = "debug"
    /\ \E t \in BagToSet(tasks) : t.kind = "test_log" /\ t.msg = MsgTestLog

-----------------------------------------------------------------------------
(* The ticket's data, checked under Spec.                                   *)

\* the view carries the owner and the five values of the intake
CarriesIntake(v) == v.owner = form.author /\ TicketText(v) = Read

-----------------------------------------------------------------------------
(* The claim handler's permission updates, checked under Spec.              *)

\* C23, as stated: whether the update for the staff role returned or raised,
\* the grant to the claimant is awaited next; whether that returned or raised,
\* the grant to the requester (if still a member) is awaited next; and after
\* the last of them the handler goes on to edit the message.
C23_Original ==
    [][ \A t \in Ended :
           t.kind = "take" =>
              /\ t.pc = "set_role" => \E u \in Started : u.pc = "set_user"
              /\ (t.pc = "set_user" /\ owner_in_guild) =>
                    \E u \in Started : u.pc = "set_owner"
              /\ t.pc = "set_owner" => \E u \in Started : u.pc = "edit" ]_vars

\* C23 failing case: the update for the staff role raised, the claim went
\* through to the claimed-state view, and neither the claimant's nor the
\* requester's grant was ever awaited.
C23_Witness ==
    /\ message_view = "taken"
    /\ \E c \in calls :
          c.kind = "take" /\ c.call = "set_permissions(role)" /\ ~c.ok
    /\ \A c \in calls :
          c.call \notin {"set_permissions(user)", "set_permissions(owner)"}
    /\ overwrites[taken_view.taker_id] = NoOverwrite

-----------------------------------------------------------------------------
(* Accept and reject interleaved, checked under SpecResolve.                *)

\* the add_roles calls that returned
RoleGrants == { c \in calls : c.call = "member.add_roles" /\ c.ok }

\* C24, as stated: whatever the interleaving of accept presses and reject
\* flows, the requester has been sent at most one resolution DM, the accepted
\* role has been granted at most once, and at most one resolution audit entry
\* has been emitted.
C24_Original ==
    /\ Len(dms) <= 1
    /\ Cardinality(RoleGrants) <= 1
    /\ Len(audit) <= 1

\* C24 failing case: the claimant and an administrator both pressed accept
\* before the channel was gone; the requester has two accept DMs, the role
\* was granted by each of the two handlers, and two audit entries exist.
C24_Witness ==
    /\ Len(dms) = 2 /\ dms[1].kind = "accept" /\ dms[2].kind = "accept"
    /\ Cardinality(RoleGrants) = 2
    /\ Len(audit) = 2 /\ audit[1].moderator # audit[2].moderator
    /\ channel = "deleted"

-----------------------------------------------------------------------------
(* The claimed ticket's buttons, checked under Spec.                        *)

\* a claim handler is still between its write of taken_by and its end
Claiming == \E t \in BagToSet(tasks) : t.kind = "take" /\ t.pc # "respond"

\* C25, as stated: whenever the claimant is recorded, the channel exists and
\* no claim handler is still running, the ticket's message carries the
\* claimed-state view, whose buttons let the claimant through.
C25_Original ==
    (initial_view.taken_by # None /\ channel = "open" /\ ~Claiming) =>
       /\ message_view = "taken"
       /\ is_taker_or_admin(initial_view.taken_by)

\* C25 failing case: the claim's edit_message raised; the claimant is
\* recorded, the channel is open, no handler is running, and the message
\* still carries the initial view, whose only button answers "already taken".
C25_Witness ==
    /\ initial_view.taken_by # None
    /\ channel = "open"
    /\ tasks = EmptyBag
    /\ message_view = "initial"
    /\ taken_view = NoView
    /\ AlreadyTaken
    /\ \E c \in calls : c.kind = "take" /\ c.call = "edit_message" /\ ~c.ok

-----------------------------------------------------------------------------
(* The order of accept_final's steps, checked under SpecResolve.            *)

\* the place of each await of accept_final in the handler's text
AcceptOrder == <<"nick", "role", "dm", "ack", "delete">>
AcceptRank(pc) == CHOOSE i \in 1..Len(AcceptOrder) : AcceptOrder[i] = pc

\* the call awaited at each of them
AwaitedAt(pc) ==
    CASE pc = "nick"   -> "member.edit"
      [] pc = "role"   -> "member.add_roles"
      [] pc = "dm"     -> "member.send"
      [] pc = "ack"    -> "send_message"
      [] pc = "delete" -> "channel.delete"

\* the accept handlers that run (those not refused)
Accepting(t) == t.kind = "accept" /\ t.pc # "respond"

\* actor a's acknowledgement of an accept was sent
Acknowledged(a) ==
    [kind |-> "accept", actor |-> a, call |-> "send_message", ok |-> TRUE] \in calls

\* the audit entries of a's accepts
AcceptEntries(a) ==
    { i \in 1..Len(audit) : audit[i].title = "accepted" /\ audit[i].moderator = a }

\* one step of one accept handler
AcceptStep ==
    \A t \in Ended : Accepting(t) =>
       \* it makes the call of its place, and goes on to a later place only
       /\ \E ok \in BOOLEAN : Awaited(t, AwaitedAt(t.pc), ok)
       /\ \A u \in Started :
             /\ Accepting(u) /\ u.actor = t.actor
             /\ AcceptRank(u.pc) > AcceptRank(t.pc)
       \* only the step of its place has the effect of its place
       /\ owner_nick' # owner_nick => t.pc = "nick"
       /\ owner_roles' # owner_roles => t.pc = "role"
       /\ dms' # dms => t.pc = "dm"
       /\ audit' # audit => t.pc = "ack"
       /\ channel' # channel => t.pc = "delete"
       \* only the role grant can be skipped, and the handler ends early only
       \* when the acknowledgement raises
       /\ t.pc = "nick" => \E u \in Started : u.pc \in {"role", "dm"}
       /\ t.pc = "role" => \E u \in Started : u.pc = "dm"
       /\ t.pc = "dm" => \E u \in Started : u.pc = "ack"
       /\ t.pc = "ack" =>
             IF Started = {}
             THEN /\ audit' = audit
                  /\ [kind |-> "accept", actor |-> t.actor,
                      call |-> "send_message", ok |-> FALSE] \in calls'
             ELSE /\ Acknowledged(t.actor)'
                  /\ LogConfigured => /\ Len(audit') = Len(audit) + 1
                                      /\ Len(audit') \in AcceptEntries(t.actor)'
                  /\ \E u \in Started : u.pc = "delete"
       /\ t.pc = "delete" => Started = {}

\* a press of accept starts at the nickname change, or at the
\* acknowledgement when the requester is no longer a member
AcceptStart ==
    \A t \in Started : (Accepting(t) /\ nInv' = nInv + 1) =>
       t.pc = IF owner_in_guild THEN "nick" ELSE "ack"

\* every accept handler at or past the deletion was acknowledged and, with a
\* log channel configured, has its audit entry emitted
AcceptedBeforeDelete ==
    /\ \A t \in BagToSet(tasks) : (Accepting(t) /\ t.pc = "delete") =>
          /\ Acknowledged(t.actor)
          /\ LogConfigured => AcceptEntries(t.actor) # {}
    /\ \A c \in calls : (c.kind = "accept" /\ c.call = "channel.delete") =>
          /\ Acknowledged(c.actor)
          /\ LogConfigured => AcceptEntries(c.actor) # {}
    /\ \A a \in Actors : AcceptEntries(a) # {} => Acknowledged(a)

\* C26: accept_final's steps run in the order nickname change, role grant, DM,
\* acknowledgement, audit entry emission, channel deletion; the audit entry is
\* emitted and the deletion awaited only after the acknowledgement was sent,
\* and the entry is emitted before the deletion is awaited.
C26_AcceptOrder ==
    /\ [][AcceptStep /\ AcceptStart]_vars
    /\ [](AcceptedBeforeDelete)

\* C26 witness: one accept handler went through all six steps, each call
\* returned, the entry is emitted and the channel is deleted.
C26_Witness ==
    /\ channel = "deleted"
    /\ \A pc \in { AcceptOrder[i] : i \in 1..Len(AcceptOrder) } :
          [kind |-> "accept", actor |-> "mod1", call |-> AwaitedAt(pc),
           ok |-> TRUE] \in calls
    /\ \A c \in calls : c.kind = "accept" => c.ok
    /\ Len(audit) = 1 /\ AcceptEntries("mod1") = {1}
    /\ Len(dms) = 1
    /\ owner_nick = Some(taken_view.nick_text)
    /\ AcceptedRole \in owner_roles

=============================================================================
